---------------------------- MODULE Spec2Model ----------------------------
(***************************************************************************)
(* Model of the background snake simulation of UrDashboard:                *)
(*   src/unnamed/part_002  class SnakeAI  (seeded PRNG, Hamiltonian cycle  *)
(*                         builder, per-agent decision procedure)          *)
(*   src/unnamed/part_001  the world simulation (initGame, food            *)
(*                         replenishment, gameLoop)                        *)
(* Cells are records [x, y]; JavaScript arrays are sequences whose JS      *)
(* index i is position i+1.                                                *)
(***************************************************************************)
EXTENDS Integers, Sequences, FiniteSets, TLC

(***************************************************************************)
(* Statements in sequence: F applied to the value of v, v being computed   *)
(* before F starts.                                                        *)
(***************************************************************************)
Then(v, F(_)) == CHOOSE out \in {F(x) : x \in {v}} : TRUE

(***************************************************************************)
(* 32-bit arithmetic.  A word is <<lo, hi>>, two 16-bit halves; the seed   *)
(* field, a JS number that is never wrapped, is four 16-bit limbs, least   *)
(* significant first, and holds 53 significant bits.                       *)
(***************************************************************************)
\* bit p (a power of two) of a ^ b and of a | b
XorBit(a, b, p) == (((a \div p) + (b \div p)) % 2) * p

OrBit(a, b, p) == IF (a \div p) % 2 = 1 \/ (b \div p) % 2 = 1 THEN p ELSE 0

\* a ^ b and a | b on 16-bit halves, bit by bit
XorBits(a, b) ==
    (((XorBit(a, b, 1) + XorBit(a, b, 2)) + (XorBit(a, b, 4) + XorBit(a, b, 8)))
     + ((XorBit(a, b, 16) + XorBit(a, b, 32)) + (XorBit(a, b, 64) + XorBit(a, b, 128))))
    + (((XorBit(a, b, 256) + XorBit(a, b, 512)) + (XorBit(a, b, 1024) + XorBit(a, b, 2048)))
       + ((XorBit(a, b, 4096) + XorBit(a, b, 8192)) + (XorBit(a, b, 16384) + XorBit(a, b, 32768))))

OrBits(a, b) ==
    (((OrBit(a, b, 1) + OrBit(a, b, 2)) + (OrBit(a, b, 4) + OrBit(a, b, 8)))
     + ((OrBit(a, b, 16) + OrBit(a, b, 32)) + (OrBit(a, b, 64) + OrBit(a, b, 128))))
    + (((OrBit(a, b, 256) + OrBit(a, b, 512)) + (OrBit(a, b, 1024) + OrBit(a, b, 2048)))
       + ((OrBit(a, b, 4096) + OrBit(a, b, 8192)) + (OrBit(a, b, 16384) + OrBit(a, b, 32768))))

Xor32(a, b) == <<XorBits(a[1], b[1]), XorBits(a[2], b[2])>>

Or32(a, b) == <<OrBits(a[1], b[1]), OrBits(a[2], b[2])>>

\* 2^k for 0 <= k <= 16
Pow2(k) == <<1, 2, 4, 8, 16, 32, 64, 128, 256, 512, 1024, 2048, 4096, 8192, 16384,
             32768, 65536>>[k + 1]

\* a >>> k for 0 < k < 16
Shr32(a, k) ==
    <<(a[1] \div Pow2(k)) + (a[2] % Pow2(k)) * Pow2(16 - k), a[2] \div Pow2(k)>>

Add32(a, b) ==
    LET s == a[1] + b[1]
    IN  <<s % 65536, (a[2] + b[2] + (s \div 65536)) % 65536>>

MulMod16(x, y) == (x * (y % 256) + ((x * (y \div 256)) % 256) * 256) % 65536

\* Math.imul: the low 32 bits of the product
Imul(a, b) ==
    LET t0 == a[1] * (b[1] % 256)
        t1 == a[1] * (b[1] \div 256)
    IN  <<(t0 + 256 * (t1 % 256)) % 65536,
          (((t0 + 256 * (t1 % 256)) \div 65536) + (t1 \div 256)
           + MulMod16(a[2], b[1]) + MulMod16(a[1], b[2])) % 65536>>

\* a non-negative integer below 2^31 as a four-limb number
NumOf(n) == <<n % 65536, n \div 65536, 0, 0>>

\* four limbs with the carries taken up
Carried(s0, s1, s2, s3) ==
    <<s0 % 65536,
      (s1 + (s0 \div 65536)) % 65536,
      (s2 + ((s1 + (s0 \div 65536)) \div 65536)) % 65536,
      s3 + ((s2 + ((s1 + (s0 \div 65536)) \div 65536)) \div 65536)>>

\* the spacing of the JS numbers around a number whose top limb is top: 1 below
\* 2^53, then doubling with every further bit
RECURSIVE Spacing(_)
Spacing(top) == IF top < 32 THEN 1 ELSE 2 * Spacing(top \div 2)

\* an integer below 2^64 as the JS number nearest to it, ties to the even one
RoundToNumber(n) ==
    LET u == Spacing(n[4])
        r == n[1] % u
        up == 2 * r > u \/ (2 * r = u /\ (n[1] \div u) % 2 = 1)
    IN  Carried(n[1] - r + (IF up THEN u ELSE 0), n[2], n[3], n[4])

\* this.seed += 0x6D2B79F5, on the unwrapped JS number
SeedAdvance(seed) ==
    RoundToNumber(Carried(seed[1] + 31221, seed[2] + 27947, seed[3], seed[4]))

\* ToInt32 of the seed, as the bitwise operators see it
ToInt32(seed) == <<seed[1], seed[2]>>

\* t = Math.imul(t ^ t >>> 15, t | 1)
mix1(t) == Imul(Xor32(t, Shr32(t, 15)), Or32(t, <<1, 0>>))

\* t ^= t + Math.imul(t ^ t >>> 7, t | 61)
mix2(t) == Xor32(t, Add32(t, Imul(Xor32(t, Shr32(t, 7)), Or32(t, <<61, 0>>))))

\* (t ^ t >>> 14) >>> 0
mix3(t) == Xor32(t, Shr32(t, 14))

\* the rest of random() once the seed has been advanced to sd
randomAt(sd) == [seed |-> sd, k |-> Then(Then(mix1(ToInt32(sd)), mix2), mix3)]

\* random(): the new seed and the 32-bit numerator k of the result k / 2^32
random(seed) == Then(SeedAdvance(seed), randomAt)

\* Math.floor((k / 2^32) * n) for 0 <= n < 2^15
ScaleFloor(k, n) == (k[2] * n + ((k[1] * n) \div 65536)) \div 65536

(***************************************************************************)
(* Geometry                                                                *)
(***************************************************************************)
Pos(px, py) == [x |-> px, y |-> py]

Dirs == <<Pos(0, -1), Pos(0, 1), Pos(-1, 0), Pos(1, 0)>>

InGrid(p, w, h) == p.x >= 0 /\ p.x < w /\ p.y >= 0 /\ p.y < h

Cells(w, h) == {Pos(px, py) : px \in 0 .. (w - 1), py \in 0 .. (h - 1)}

Abs(n) == IF n < 0 THEN -n ELSE n

Adjacent(p, q) == Abs(p.x - q.x) + Abs(p.y - q.y) = 1

(***************************************************************************)
(* CycleBuilder: generateMST, addWalls, mstToCycle, link, unlink, swapLinks*)
(***************************************************************************)
addWallsNoRight(node, w, h) ==
    LET ok(e) == InGrid(e.v, w, h)
    IN  SelectSeq([d \in 1 .. 3 |->
                    [u |-> node, v |-> Pos(node.x + Dirs[d].x, node.y + Dirs[d].y)]], ok)

\* the walls pushed for node, in the order up, down, left, right
addWalls(node, w, h) ==
    LET ok(e) == InGrid(e.v, w, h)
    IN  SelectSeq([d \in 1 .. 4 |->
                    [u |-> node, v |-> Pos(node.x + Dirs[d].x, node.y + Dirs[d].y)]], ok)

RemoveAt(s, i) == SubSeq(s, 1, i - 1) \o SubSeq(s, i + 1, Len(s))

\* the state of generateMST before its while loop
mstStart(seed, start, w, h) ==
    [seed |-> seed, walls |-> addWalls(start, w, h), visited |-> {start}, edges |-> <<>>]

\* the body of the while loop of generateMST after the splice, for the wall
\* taken out
mstTake(st, wall, w, h) ==
    LET uVis == wall.u \in st.visited
        vVis == wall.v \in st.visited
        unvisited == IF uVis THEN wall.v ELSE wall.u
    IN  IF uVis # vVis
        THEN [st EXCEPT !.edges = Append(@, wall),
                        !.visited = @ \cup {unvisited},
                        !.walls = @ \o addWalls(unvisited, w, h)]
        ELSE st

\* one pass of the while loop, r being the random() call that gives randIdx
mstPick(st, r, w, h) ==
    mstTake([st EXCEPT !.seed = r.seed,
                       !.walls = RemoveAt(@, ScaleFloor(r.k, Len(st.walls)) + 1)],
            st.walls[ScaleFloor(r.k, Len(st.walls)) + 1], w, h)

\* the while loop of generateMST, which stops on an empty walls array; every
\* pass takes one wall out and at most four walls are pushed per node, so
\* 4 * w * h passes are all the loop can take, and they are taken half by half
RECURSIVE mstLoop(_, _, _, _)
mstLoop(st, turns, w, h) ==
    IF Len(st.walls) = 0 \/ turns = 0 THEN st
    ELSE IF turns = 1 THEN mstPick(st, random(st.seed), w, h)
    ELSE mstLoop(mstLoop(st, turns \div 2, w, h), turns - (turns \div 2), w, h)

\* generateMST from its start node on: the edges and the seed it leaves
mstFrom(seed, start, w, h) ==
    LET out == mstLoop(mstStart(seed, start, w, h), 4 * w * h, w, h)
    IN  [edges |-> out.edges, seed |-> out.seed]

mstStartY(r1, r2, w, h) ==
    mstFrom(r2.seed, Pos(ScaleFloor(r1.k, w), ScaleFloor(r2.k, h)), w, h)

mstStartX(r1, w, h) == mstStartY(r1, random(r1.seed), w, h)

generateMST(seed, w, h) == mstStartX(random(seed), w, h)

\* links: a function from cell to the sequence of its linked cells
link(links, a, b) ==
    [links EXCEPT ![a] = Append(@, b), ![b] = Append(@, a)]

unlink(links, a, b) ==
    LET notB(p) == p.x # b.x \/ p.y # b.y
        notA(p) == p.x # a.x \/ p.y # a.y
    IN  [links EXCEPT ![a] = SelectSeq(@, notB), ![b] = SelectSeq(@, notA)]

\* a swap that joins the far ends of the two removed links
swapLinksCrossed(links, a1, a2, b1, b2) ==
    link(link(unlink(unlink(links, a1, a2), b1, b2), a1, b2), a2, b1)

swapLinks(links, a1, a2, b1, b2) ==
    link(link(unlink(unlink(links, a1, a2), b1, b2), a1, b1), a2, b2)

\* the four links of every 2x2 block: tl-tr, tr-br, br-bl, bl-tl
blockLinks(w, h) ==
    [p \in Cells(2 * w, 2 * h) |->
        LET cx == p.x \div 2
            cy == p.y \div 2
            tl == Pos(2 * cx, 2 * cy)
            tr == Pos(2 * cx + 1, 2 * cy)
            bl == Pos(2 * cx, 2 * cy + 1)
            br == Pos(2 * cx + 1, 2 * cy + 1)
        IN  IF p = tl THEN <<tr, bl>>
            ELSE IF p = tr THEN <<tl, br>>
            ELSE IF p = br THEN <<tr, bl>>
            ELSE <<br, tl>>]

swapFor(links, u, v, dx, dy) ==
        IF dx = 1
        THEN swapLinks(links, Pos(2 * u.x + 1, 2 * u.y), Pos(2 * u.x + 1, 2 * u.y + 1),
                       Pos(2 * v.x, 2 * v.y), Pos(2 * v.x, 2 * v.y + 1))
        ELSE IF dx = -1
        THEN swapLinks(links, Pos(2 * u.x, 2 * u.y), Pos(2 * u.x, 2 * u.y + 1),
                       Pos(2 * v.x + 1, 2 * v.y), Pos(2 * v.x + 1, 2 * v.y + 1))
        ELSE IF dy = 1
        THEN swapLinks(links, Pos(2 * u.x, 2 * u.y + 1), Pos(2 * u.x + 1, 2 * u.y + 1),
                       Pos(2 * v.x, 2 * v.y), Pos(2 * v.x + 1, 2 * v.y))
        ELSE IF dy = -1
        THEN swapLinks(links, Pos(2 * u.x, 2 * u.y), Pos(2 * u.x + 1, 2 * u.y),
                       Pos(2 * v.x, 2 * v.y + 1), Pos(2 * v.x + 1, 2 * v.y + 1))
        ELSE links

applyEdge(links, edge) ==
    swapFor(links, edge.u, edge.v, edge.v.x - edge.u.x, edge.v.y - edge.u.y)

\* mstEdges.forEach over the edges from..to in order, taken half by half
RECURSIVE applyEdges(_, _, _, _)
applyEdges(links, mstEdges, from, to) ==
    IF from > to THEN links
    ELSE IF from = to THEN applyEdge(links, mstEdges[from])
    ELSE Then(applyEdges(links, mstEdges, from, (from + to) \div 2),
              LAMBDA done : applyEdges(done, mstEdges, ((from + to) \div 2) + 1, to))

\* one pass of the for loop of mstToCycle: push curr, break at a cell without
\* links, else step to the neighbour that is not prev
traverseStep(links, st) ==
    IF st.curr \notin DOMAIN links
    THEN [st EXCEPT !.cycle = Append(@, st.curr), !.broke = TRUE]
    ELSE [curr |-> IF links[st.curr][1].x = st.prev.x /\ links[st.curr][1].y = st.prev.y
                   THEN links[st.curr][2] ELSE links[st.curr][1],
          prev |-> st.curr,
          cycle |-> Append(st.cycle, st.curr),
          broke |-> FALSE]

\* the for loop of mstToCycle: turns passes unless it breaks, taken half by half
RECURSIVE traverse(_, _, _)
traverse(links, st, turns) ==
    IF st.broke \/ turns = 0 THEN st
    ELSE IF turns = 1 THEN traverseStep(links, st)
    ELSE traverse(links, traverse(links, st, turns \div 2), turns - (turns \div 2))

\* the traversal from (0,0) with prev = links.get("0,0")[0]: total passes
traverseFrom(links, total) ==
    IF total <= 0 THEN <<>>
    ELSE traverse(links, [curr |-> Pos(0, 0), prev |-> links[Pos(0, 0)][1],
                          cycle |-> <<>>, broke |-> FALSE], total).cycle

mstToCycle(mstEdges, w, h, total) ==
    Then(applyEdges(blockLinks(w, h), mstEdges, 1, Len(mstEdges)),
         LAMBDA links : traverseFrom(links, total))

\* cycleMap after the forEach: a later index overwrites an earlier one
MapOfCycleRotated(cycle) ==
    [p \in {cycle[i] : i \in 1 .. Len(cycle)} |->
        (CHOOSE i \in 1 .. Len(cycle) : cycle[i] = p) % Len(cycle)]

MapOfCycle(cycle) ==
    [p \in {cycle[i] : i \in 1 .. Len(cycle)} |->
        (CHOOSE i \in 1 .. Len(cycle) :
            cycle[i] = p /\ \A j \in (i + 1) .. Len(cycle) : cycle[j] # p) - 1]

(***************************************************************************)
(* SnakeAI objects are records                                             *)
(*   [cols, rows, seed, isInitialized, hamiltonianCycle, cycleMap].        *)
(***************************************************************************)
\* the values Date.now() may return (milliseconds, about 1.76 * 10^12), as limbs
ClockValues == {<<1001, 7, 410, 0>>, <<1002, 7, 410, 0>>}

\* new SnakeAI(cols, rows, seed): a falsy seed (0) is replaced by Date.now()
NewSnakeAI(c, r, seedArg, now) ==
    [cols |-> c, rows |-> r,
     seed |-> IF seedArg # NumOf(0) THEN seedArg ELSE now,
     isInitialized |-> FALSE,
     hamiltonianCycle |-> <<>>,
     cycleMap |-> <<>>]

withCycle(ai, seed, cycle) ==
    [ai EXCEPT !.seed = seed, !.hamiltonianCycle = cycle, !.cycleMap = MapOfCycle(cycle)]

withMST(ai, mst, w, h) ==
    Then(mstToCycle(mst.edges, w, h, ai.cols * ai.rows),
         LAMBDA cycle : withCycle(ai, mst.seed, cycle))

generateHamiltonianCycle(ai) ==
    Then(generateMST(ai.seed, ai.cols \div 2, ai.rows \div 2),
         LAMBDA mst : withMST(ai, mst, ai.cols \div 2, ai.rows \div 2))

\* an init() that sets the flag before it tests the dimensions
initFlaggedFirst(ai) ==
    IF ai.cols % 2 # 0 \/ ai.rows % 2 # 0 THEN [ai EXCEPT !.isInitialized = TRUE]
    ELSE [generateHamiltonianCycle(ai) EXCEPT !.isInitialized = TRUE]

\* init() calls console.error
initReports(ai) == ai.cols % 2 # 0 \/ ai.rows % 2 # 0

\* init(): refuses odd dimensions
init(ai) ==
    IF ai.cols % 2 # 0 \/ ai.rows % 2 # 0 THEN ai
    ELSE [generateHamiltonianCycle(ai) EXCEPT !.isInitialized = TRUE]

\* mstToCycle reads links.get("0,0")[0]: a TypeError when no block was linked
mstToCycleThrows(w, h) == Pos(0, 0) \notin DOMAIN blockLinks(w, h)

\* init() on an even grid ends in that TypeError
initThrows(ai) ==
    /\ ~initReports(ai)
    /\ mstToCycleThrows(ai.cols \div 2, ai.rows \div 2)

\* the object an init() that threw leaves behind: generateMST has drawn from the seed
initThrown(ai) ==
    [ai EXCEPT !.seed = generateMST(ai.seed, ai.cols \div 2, ai.rows \div 2).seed]

CycleLen(ai) == Len(ai.hamiltonianCycle)

\* hamiltonianCycle[idx] with a JS index
CycleAt(ai, idx) == ai.hamiltonianCycle[idx + 1]

getCycleIndex(ai, pos) == ai.cycleMap[pos]

getNeighbors(ai, node) ==
    LET ok(p) == InGrid(p, ai.cols, ai.rows)
    IN  SelectSeq([d \in 1 .. 4 |-> Pos(node.x + Dirs[d].x, node.y + Dirs[d].y)], ok)

SeqToSet(s) == {s[n] : n \in 1 .. Len(s)}

isSafePath(ai, startPos, steps, obstacles) ==
    \A n \in 1 .. steps :
        CycleAt(ai, (getCycleIndex(ai, startPos) + n) % CycleLen(ai))
            \notin SeqToSet(obstacles)

\* f[lo] + ... + f[hi], taken half by half
RECURSIVE SumOver(_, _, _)
SumOver(f, lo, hi) ==
    IF lo > hi THEN 0
    ELSE IF lo = hi THEN f[lo]
    ELSE SumOver(f, lo, (lo + hi) \div 2) + SumOver(f, ((lo + hi) \div 2) + 1, hi)

\* what one cell at offset d of the 5x5 square adds to the danger score
dangerAtFlat(ai, c, d, obstaclesSet) ==
    IF ~InGrid(c, ai.cols, ai.rows) THEN 5
    ELSE IF c \in obstaclesSet THEN 10
    ELSE 0

dangerAt(ai, c, d, obstaclesSet) ==
    IF ~InGrid(c, ai.cols, ai.rows) THEN 5
    ELSE IF c \in obstaclesSet THEN (IF Abs(d[1]) + Abs(d[2]) = 1 THEN 20 ELSE 10)
    ELSE 0

\* the two for loops of getDangerScore: dy outside, dx inside, the cell itself
\* skipped
getDangerScore(ai, pos, obstaclesSet) ==
    LET radius == 2
        row(dy) == [dx \in (-radius) .. radius |->
                      IF dx = 0 /\ dy = 0 THEN 0
                      ELSE dangerAt(ai, Pos(pos.x + dx, pos.y + dy), <<dx, dy>>,
                                    obstaclesSet)]
    IN  SumOver([dy \in (-radius) .. radius |-> SumOver(row(dy), -radius, radius)],
                -radius, radius)

\* the state of floodFill's loop: the queue, the visited set and count
floodStart(start, count) == [queue |-> <<start>>, visited |-> {start}, count |-> count]

\* one turn of the while loop: shift the queue, count++, push the neighbours
\* that are neither obstacles nor visited; the visited set is written out
\* cell by cell, as visited.add does
floodPush(ai, st, obstacles) ==
    LET fresh(n) == n \notin obstacles /\ n \notin st.visited
        added == SelectSeq(getNeighbors(ai, Head(st.queue)), fresh)
    IN  [queue |-> Tail(st.queue) \o added,
         visited |-> {c : c \in st.visited \cup SeqToSet(added)},
         count |-> st.count + 1]

\* the while loop of floodFill, which stops on an empty queue or on count 300;
\* count grows in every turn, so 300 turns are all the loop can take, and they
\* are taken half by half
RECURSIVE floodLoop(_, _, _, _)
floodLoop(ai, st, turns, obstacles) ==
    IF Len(st.queue) = 0 \/ st.count >= 300 \/ turns = 0 THEN st
    ELSE IF turns = 1 THEN floodPush(ai, st, obstacles)
    ELSE floodLoop(ai, floodLoop(ai, st, turns \div 2, obstacles),
                   turns - (turns \div 2), obstacles)

floodFillFromOne(ai, start, obstacles) ==
    floodLoop(ai, floodStart(start, 1), 300, obstacles).count

floodFill(ai, start, obstacles) ==
    floodLoop(ai, floodStart(start, 0), 300, obstacles).count

\* the value null
Null == [type |-> "null"]

\* the forEach of survive: bestMove and bestScore after the first n neighbours
RECURSIVE surviveScan(_, _, _, _, _, _)
surviveTakeLast(ai, neighbors, n, snakeSet, obstaclesSet, best, score) ==
    IF best.move = Null \/ score >= best.score
    THEN surviveScan(ai, neighbors, n + 1, snakeSet, obstaclesSet,
                     [move |-> neighbors[n], score |-> score])
    ELSE surviveScan(ai, neighbors, n + 1, snakeSet, obstaclesSet, best)

surviveTake(ai, neighbors, n, snakeSet, obstaclesSet, best, score) ==
    IF best.move = Null \/ score > best.score
    THEN surviveScan(ai, neighbors, n + 1, snakeSet, obstaclesSet,
                     [move |-> neighbors[n], score |-> score])
    ELSE surviveScan(ai, neighbors, n + 1, snakeSet, obstaclesSet, best)

\* a forEach that leaves the obstacle test out
surviveScanThrough(ai, neighbors, n, snakeSet, obstaclesSet, best) ==
    IF n > Len(neighbors) THEN best
    ELSE IF neighbors[n] \notin snakeSet
    THEN surviveTake(ai, neighbors, n, snakeSet, obstaclesSet, best,
                     floodFill(ai, neighbors[n], obstaclesSet \cup snakeSet)
                     - getDangerScore(ai, neighbors[n], obstaclesSet) * 2)
    ELSE surviveScan(ai, neighbors, n + 1, snakeSet, obstaclesSet, best)

surviveScan(ai, neighbors, n, snakeSet, obstaclesSet, best) ==
    IF n > Len(neighbors) THEN best
    ELSE IF neighbors[n] \notin snakeSet /\ neighbors[n] \notin obstaclesSet
    THEN surviveTake(ai, neighbors, n, snakeSet, obstaclesSet, best,
                     floodFill(ai, neighbors[n], obstaclesSet \cup snakeSet)
                     - getDangerScore(ai, neighbors[n], obstaclesSet) * 2)
    ELSE surviveScan(ai, neighbors, n + 1, snakeSet, obstaclesSet, best)

surviveMove(head, best, reason) ==
    IF best.move # Null
    THEN [x |-> best.move.x - head.x, y |-> best.move.y - head.y,
          type |-> "survival", reason |-> reason, score |-> best.score]
    ELSE Null

survive(ai, head, snake, obstaclesSet, reason) ==
    surviveMove(head,
                surviveScan(ai, getNeighbors(ai, head), 1, SeqToSet(snake), obstaclesSet,
                            [move |-> Null, score |-> 0]),
                reason)

\* sharedTargets (a Map) is a function from snake ids to food indices
MapSet(m, key, val) == [k \in (DOMAIN m) \cup {key} |-> IF k = key THEN val ELSE m[k]]

MapKeep(m, key) == m

MapDelete(m, key) == [k \in (DOMAIN m) \ {key} |-> m[k]]

EmptyMap == [k \in {} |-> 0]

\* the forEach of findNearestFood over the JS indices n .. foods.length-1
RECURSIVE nearestScan(_, _, _, _, _, _)
nearestTake(ai, headIdx, foods, n, taken, best, dist) ==
    IF best.nearestIdx = -1 \/ dist < best.minCycleDist
    THEN nearestScan(ai, headIdx, foods, n + 1, taken,
                     [minCycleDist |-> dist, nearest |-> foods[n + 1], nearestIdx |-> n])
    ELSE nearestScan(ai, headIdx, foods, n + 1, taken, best)

nearestScan(ai, headIdx, foods, n, taken, best) ==
    IF n >= Len(foods) THEN best
    ELSE IF n \in taken THEN nearestScan(ai, headIdx, foods, n + 1, taken, best)
    ELSE nearestTake(ai, headIdx, foods, n, taken, best,
                     IF getCycleIndex(ai, foods[n + 1]) - headIdx < 0
                     THEN getCycleIndex(ai, foods[n + 1]) - headIdx + CycleLen(ai)
                     ELSE getCycleIndex(ai, foods[n + 1]) - headIdx)

nearestResult(best, snakeId, sharedTargets) ==
    [nearest |-> best.nearest,
     targets |-> IF best.nearest # Null /\ snakeId # -1
                 THEN MapSet(sharedTargets, snakeId, best.nearestIdx)
                 ELSE sharedTargets]

\* a search that takes no notice of the other snakes' claims
findNearestFoodOfAll(ai, head, foods, snakeId, sharedTargets) ==
    nearestResult(
        nearestScan(ai, getCycleIndex(ai, head), foods, 0, {},
                    [minCycleDist |-> 0, nearest |-> Null, nearestIdx |-> -1]),
        snakeId, sharedTargets)

\* a search that takes a claim beyond the end of the food list as one on the
\* item at that index modulo the length
findNearestFoodWrapped(ai, head, foods, snakeId, sharedTargets) ==
    nearestResult(
        nearestScan(ai, getCycleIndex(ai, head), foods, 0,
                    {n \in 0 .. (Len(foods) - 1) :
                        \E oid \in DOMAIN sharedTargets :
                            oid # snakeId /\ sharedTargets[oid] % Len(foods) = n},
                    [minCycleDist |-> 0, nearest |-> Null, nearestIdx |-> -1]),
        snakeId, sharedTargets)

\* findNearestFood: the food found (or Null) and sharedTargets afterwards
findNearestFood(ai, head, foods, snakeId, sharedTargets) ==
    nearestResult(
        nearestScan(ai, getCycleIndex(ai, head), foods, 0,
                    {n \in 0 .. (Len(foods) - 1) :
                        \E oid \in DOMAIN sharedTargets :
                            oid # snakeId /\ sharedTargets[oid] = n},
                    [minCycleDist |-> 0, nearest |-> Null, nearestIdx |-> -1]),
        snakeId, sharedTargets)

\* forward distance along the cycle from index a to index b
CycleDist(ai, a, b) == (b - a + CycleLen(ai)) % CycleLen(ai)

\* the tests of findShortcut that make it skip neighbour nb
shortcutSkipsLax(ai, nb, snake, obstaclesSet) ==
    \/ nb \in obstaclesSet
    \/ getDangerScore(ai, nb, obstaclesSet) > 25
    \/ nb \notin DOMAIN ai.cycleMap
    \/ \E k \in 1 .. (Len(snake) - 1) : snake[k] = nb

shortcutSkips(ai, nb, snake, obstaclesSet) ==
    \/ nb \in obstaclesSet
    \/ getDangerScore(ai, nb, obstaclesSet) > 15
    \/ nb \notin DOMAIN ai.cycleMap
    \/ \E k \in 1 .. (Len(snake) - 1) : snake[k] = nb

shortcutGateLoose(nDist, targetDist, tailDist) ==
    nDist <= targetDist /\ nDist < tailDist

\* a gate that lets the head land at or beyond the targeted item
shortcutGatePast(nDist, targetDist, tailDist) ==
    nDist > 1 /\ nDist < tailDist

shortcutGate(nDist, targetDist, tailDist) ==
    nDist < targetDist /\ nDist > 1 /\ nDist < tailDist

\* the for loop of findShortcut from neighbour n on
RECURSIVE shortcutScan(_, _, _, _, _, _, _, _)
shortcutScan(ai, neighbors, n, headIdx, targetDist, tailDist, snake, obstaclesSet) ==
    IF n > Len(neighbors) THEN Null
    ELSE IF /\ ~shortcutSkips(ai, neighbors[n], snake, obstaclesSet)
            /\ shortcutGate(CycleDist(ai, headIdx, getCycleIndex(ai, neighbors[n])),
                            targetDist, tailDist)
    THEN neighbors[n]
    ELSE shortcutScan(ai, neighbors, n + 1, headIdx, targetDist, tailDist,
                      snake, obstaclesSet)

findShortcut(ai, head, headIdx, food, foodIdx, snake, obstaclesSet) ==
    shortcutScan(ai, getNeighbors(ai, head), 1, headIdx,
                 CycleDist(ai, headIdx, foodIdx),
                 CycleDist(ai, headIdx, getCycleIndex(ai, snake[Len(snake)])),
                 snake, obstaclesSet)

shortcutMove(head, shortcut, nextPos) ==
    IF shortcut # Null
    THEN [x |-> shortcut.x - head.x, y |-> shortcut.y - head.y,
          type |-> "shortcut", reason |-> "Safe Shortcut"]
    ELSE [x |-> nextPos.x - head.x, y |-> nextPos.y - head.y, type |-> "cycle"]

\* getNextMove after both blockage tests have passed
seekFood(ai, head, headIndex, nextPos, snake, obstaclesSet, found) ==
    [move |-> shortcutMove(head,
                           IF found.nearest # Null
                           THEN findShortcut(ai, head, headIndex, found.nearest,
                                             getCycleIndex(ai, found.nearest),
                                             snake, obstaclesSet)
                           ELSE Null,
                           nextPos),
     targets |-> found.targets]

moveFromPathFirst(ai, head, headIndex, nextPos, snake, foods, obstacles, obstaclesSet, snakeId, sharedTargets) ==
    IF ~isSafePath(ai, head, 5, obstacles)
    THEN [move |-> survive(ai, head, snake, obstaclesSet, "Path Blocked Ahead"),
          targets |-> sharedTargets]
    ELSE IF nextPos \in obstaclesSet
    THEN [move |-> survive(ai, head, snake, obstaclesSet, "Immediate Blockage"),
          targets |-> sharedTargets]
    ELSE seekFood(ai, head, headIndex, nextPos, snake, obstaclesSet,
                  findNearestFood(ai, head, foods, snakeId, sharedTargets))

\* a getNextMove that searches for food before it tests for blockage
moveFromSeekFirst(ai, head, headIndex, nextPos, snake, foods, obstacles, obstaclesSet, snakeId, sharedTargets) ==
    IF nextPos \in obstaclesSet
    THEN [move |-> survive(ai, head, snake, obstaclesSet, "Immediate Blockage"),
          targets |-> findNearestFood(ai, head, foods, snakeId, sharedTargets).targets]
    ELSE IF ~isSafePath(ai, head, 5, obstacles)
    THEN [move |-> survive(ai, head, snake, obstaclesSet, "Path Blocked Ahead"),
          targets |-> findNearestFood(ai, head, foods, snakeId, sharedTargets).targets]
    ELSE seekFood(ai, head, headIndex, nextPos, snake, obstaclesSet,
                  findNearestFood(ai, head, foods, snakeId, sharedTargets))

moveFrom(ai, head, headIndex, nextPos, snake, foods, obstacles, obstaclesSet, snakeId, sharedTargets) ==
    IF nextPos \in obstaclesSet
    THEN [move |-> survive(ai, head, snake, obstaclesSet, "Immediate Blockage"),
          targets |-> sharedTargets]
    ELSE IF ~isSafePath(ai, head, 5, obstacles)
    THEN [move |-> survive(ai, head, snake, obstaclesSet, "Path Blocked Ahead"),
          targets |-> sharedTargets]
    ELSE seekFood(ai, head, headIndex, nextPos, snake, obstaclesSet,
                  findNearestFood(ai, head, foods, snakeId, sharedTargets))

\* getNextMove on an initialized controller: the move and sharedTargets afterwards
getNextMove(ai, snake, foods, poison, obstacles, snakeId, sharedTargets) ==
    moveFrom(ai, snake[1], getCycleIndex(ai, snake[1]),
             CycleAt(ai, (getCycleIndex(ai, snake[1]) + 1) % CycleLen(ai)),
             snake, foods, obstacles,
             SeqToSet(obstacles) \cup (IF poison # Null THEN {poison} ELSE {}),
             snakeId, sharedTargets)

startStateOf(snake) ==
    [snake |-> snake, dx |-> snake[1].x - snake[2].x, dy |-> snake[1].y - snake[2].y]

\* the body and direction getStartState builds for a head at cycle index headIdx
startStateForward(ai, headIdx) ==
    startStateOf([n \in 1 .. 3 |-> CycleAt(ai, (headIdx + (n - 1)) % CycleLen(ai))])

\* a start state of four cells
startStateLong(ai, headIdx) ==
    startStateOf([n \in 1 .. 4 |->
                    CycleAt(ai, (headIdx - (n - 1) + CycleLen(ai)) % CycleLen(ai))])

startStateAt(ai, headIdx) ==
    startStateOf([n \in 1 .. 3 |->
                    CycleAt(ai, (headIdx - (n - 1) + CycleLen(ai)) % CycleLen(ai))])

\* Math.floor(rng * (hamiltonianCycle.length - len)) for rng = k / 2^32
startHeadIdx(ai, k) == ScaleFloor(k, CycleLen(ai) - 3)

(***************************************************************************)
(* WorldSimulation (src/unnamed/part_001)                                  *)
(***************************************************************************)
VARIABLES
    TILE_COLS,      \* grid columns
    TILE_ROWS,      \* grid rows
    aiController,   \* the SnakeAI object
    snakes,         \* the snakes array
    foods,          \* the foods array
    snakeTargets,   \* the shared Map snake id -> food index
    i,              \* gameLoop's loop index; 0 between two ticks
    hung,           \* control is inside a maintainFoodCount loop that cannot end
    ticks,          \* completed calls of gameLoop
    last,           \* what the latest loop iteration decided and did
    tickStart,      \* the snakes array as the running tick found it
    twin,           \* a second SnakeAI object and the outputs drawn from both
    resizeTimers,   \* the pending setTimeout(resizeCanvas, 200) calls: ms left, oldest first
    gameTimeout,    \* ms left of the live timer gameTimeout names; -1 when it names none
    running,        \* a handler has called gameTick and gameLoop has not returned yet
    threw,          \* an exception has escaped a handler
    burst           \* the resize events of the current burst and the rebuilds since its start

hostVars == <<resizeTimers, gameTimeout, running, threw, burst>>

vars == <<TILE_COLS, TILE_ROWS, aiController, snakes, foods, snakeTargets, i, hung,
          ticks, last, tickStart, twin, hostVars>>

NoBurst == [events |-> 0, since |-> -1, rebuilds |-> 0, early |-> FALSE, total |-> 0]

\* a page whose timers are left out: gameLoop is simply run again and again
HostIdle ==
    /\ resizeTimers = <<>>
    /\ gameTimeout = -1
    /\ running = FALSE
    /\ threw = FALSE
    /\ burst = NoBurst

\* the grids (cols, rows) the canvas may yield
Grids == {<<4, 4>>}

\* completed ticks explored in the two-snake world
MaxTicks == 6

\* completed ticks explored in a world of one snake
SoloTicks == 9

\* the draws of Math.random() explored for a new food item: for every snake, the
\* FoodSpread free cells nearest ahead of its head and the FoodSpread free cells
\* nearest behind it, in cycle order
FoodSpread == 1

\* the draws of Math.random() explored for a respawn: RespawnSpread head indices,
\* evenly spaced along the cycle (one more when the spacing leaves a remainder)
RespawnSpread == 3

Bodies(ss) == UNION {SeqToSet(ss[n].body) : n \in 1 .. Len(ss)}

\* the tiles spawnSingleFood accepts
FreeCells(ss, fs) == Cells(TILE_COLS, TILE_ROWS) \ (Bodies(ss) \cup SeqToSet(fs))

\* how many free cells lie strictly before c on the way forward from cell from
rankAhead(ai, free, from, c) ==
    Cardinality({d \in free : CycleDist(ai, ai.cycleMap[from], ai.cycleMap[d])
                               < CycleDist(ai, ai.cycleMap[from], ai.cycleMap[c])})

\* the tiles an accepted draw is taken from
FoodDraws(ai, ss, fs) ==
    LET free == FreeCells(ss, fs)
    IN  {c \in free :
            \E n \in 1 .. Len(ss) :
                \/ rankAhead(ai, free, ss[n].body[1], c) < FoodSpread
                \/ rankAhead(ai, free, ss[n].body[1], c) >= Cardinality(free) - FoodSpread}

\* a refill loop that is content with four items
RECURSIVE maintainFour(_, _, _)
maintainFour(ai, ss, fs) ==
    IF Len(fs) >= 4 THEN {[foods |-> fs, returned |-> TRUE]}
    ELSE IF FreeCells(ss, fs) = {} THEN {[foods |-> fs, returned |-> FALSE]}
    ELSE UNION {maintainFour(ai, ss, Append(fs, c)) : c \in FoodDraws(ai, ss, fs)}

\* maintainFoodCount: every array it can leave, and whether the loop ended.
\* spawnSingleFood gives up after 50 misses, and the while loop calls it again:
\* the loop ends only once five items are present.
RECURSIVE maintainFoodCount(_, _, _)
maintainFoodCount(ai, ss, fs) ==
    IF Len(fs) >= 5 THEN {[foods |-> fs, returned |-> TRUE]}
    ELSE IF FreeCells(ss, fs) = {} THEN {[foods |-> fs, returned |-> FALSE]}
    ELSE UNION {maintainFoodCount(ai, ss, Append(fs, c)) : c \in FoodDraws(ai, ss, fs)}

NoLast == [id |-> -1]

\* a snake object built from a start state
NewSnake(startState, colorIndex, id) ==
    [body |-> startState.snake, dx |-> startState.dx, dy |-> startState.dy,
     nextDx |-> startState.dx, nextDy |-> startState.dy,
     colorIndex |-> colorIndex, id |-> id]

bootWith(ai, r0, r1) ==
    [ai |-> [ai EXCEPT !.seed = r1.seed],
     snakes |-> <<NewSnake(startStateAt(ai, startHeadIdx(ai, r0.k)), 0, 0),
                  NewSnake(startStateAt(ai, startHeadIdx(ai, Add32(r1.k, <<0, 32768>>))),
                           1, 1)>>]

bootSecond(ai, r0) == bootWith(ai, r0, random(r0.seed))

bootFirst(ai) == bootSecond(ai, random(ai.seed))

\* initGame up to the first gameLoop: the two getStartState calls (offsets 0 and
\* 0.5, so rng is r and (r + 0.5) % 1) on the controller, which initializes
\* itself in the first of them
initSnakes(ai) == bootFirst(IF ai.isInitialized THEN ai ELSE init(ai))

\* the state initGame leaves for booted = initSnakes(controller), on grid g
WorldWith(g, booted) ==
    /\ TILE_COLS = g[1]
    /\ TILE_ROWS = g[2]
    /\ aiController = booted.ai
    /\ snakes = booted.snakes
    /\ snakeTargets = EmptyMap
    /\ i = 0
    /\ ticks = 0
    /\ last = NoLast
    /\ tickStart = booted.snakes
    /\ HostIdle

InitWith(g, booted) == WorldWith(g, booted) /\ twin = NoLast

Init ==
    \E g \in Grids, now \in ClockValues :
        /\ InitWith(g, initSnakes(NewSnakeAI(g[1], g[2], now, now)))
        /\ \E fill \in maintainFoodCount(aiController, snakes, <<>>) :
                /\ foods = fill.foods
                /\ hung = ~fill.returned

\* otherParts: the bodies of the other snakes, concatenated in array order
RECURSIVE otherParts(_, _, _)
otherParts(ss, idx, n) ==
    IF n > Len(ss) THEN <<>>
    ELSE (IF n # idx + 1 THEN ss[n].body ELSE <<>>) \o otherParts(ss, idx, n + 1)

\* a collision test without the test against the snake's own body
collideNoSelf(s, obs, res, ndx, ndy, head) ==
    [s |-> s, obstacles |-> obs, move |-> res.move, targets |-> res.targets,
     dx |-> ndx, dy |-> ndy, head |-> head,
     wall  |-> head.x < 0 \/ head.x >= TILE_COLS \/ head.y < 0 \/ head.y >= TILE_ROWS,
     self  |-> FALSE,
     other |-> \E n \in 1 .. Len(snakes) :
                  snakes[n].id # s.id /\ head \in SeqToSet(snakes[n].body)]

\* the collision test of gameLoop for the new head
collide(s, obs, res, ndx, ndy, head) ==
    [s |-> s, obstacles |-> obs, move |-> res.move, targets |-> res.targets,
     dx |-> ndx, dy |-> ndy, head |-> head,
     wall  |-> head.x < 0 \/ head.x >= TILE_COLS \/ head.y < 0 \/ head.y >= TILE_ROWS,
     self  |-> head \in SeqToSet(s.body),
     other |-> \E n \in 1 .. Len(snakes) :
                  snakes[n].id # s.id /\ head \in SeqToSet(snakes[n].body)]

steer(s, obs, res, ndx, ndy) ==
    collide(s, obs, res, ndx, ndy, Pos(s.body[1].x + ndx, s.body[1].y + ndy))

\* a null move leaves nextDx, nextDy as they were
decide(s, obs, res) ==
    steer(s, obs, res,
          IF res.move # Null THEN res.move.x ELSE s.nextDx,
          IF res.move # Null THEN res.move.y ELSE s.nextDy)

decideFor(s, obs) ==
    decide(s, obs, getNextMove(aiController, s.body, foods, Null, obs, s.id, snakeTargets))

\* an iteration that takes its obstacles from the bodies the tick started with
DecisionAtTickStart(idx) ==
    decideFor(snakes[idx + 1], otherParts(IF idx = 0 THEN snakes ELSE tickStart, idx, 1))

\* a collision that another snake's body does not cause
CollisionNoOther(d) == d.wall \/ d.self

\* one iteration of gameLoop's for loop up to the collision test
Decision(idx) == decideFor(snakes[idx + 1], otherParts(snakes, idx, 1))

Collision(d) == d.wall \/ d.self \/ d.other

\* the loop index after this iteration, and the end of the tick after the last
Advance(idx) ==
    /\ i' = IF idx + 1 < Len(snakes) THEN idx + 1 ELSE 0
    /\ ticks' = IF idx + 1 < Len(snakes) THEN ticks ELSE ticks + 1
    /\ tickStart' = IF idx = 0 THEN snakes ELSE tickStart

\* the record of an iteration: the snake as it was, what it was told, what it did
Note(idx, d, how) ==
    last' = [id |-> d.s.id, idx |-> idx, move |-> d.move, obstacles |-> d.obstacles,
             from |-> d.s.body[1], prev |-> Pos(d.s.nextDx, d.s.nextDy),
             body |-> d.s.body, colorIndex |-> d.s.colorIndex,
             foods |-> foods, claims |-> snakeTargets, targets |-> d.targets,
             head |-> d.head, len |-> Len(d.s.body), did |-> how,
             wall |-> d.wall, self |-> d.self, other |-> d.other]

TickBound == IF Len(snakes) = 1 THEN SoloTicks ELSE MaxTicks

\* gameLoop runs when the tick timer fires, and not inside a loop that never ends
CanStep == ~hung /\ (i > 0 \/ ticks < TickBound)

\* the cycle indices a respawn may put the head on: Math.random() * 1000 makes
\* rng any fraction, so any index below length - 3; RespawnSpread of them are tried
RespawnHeads(ai) ==
    LET count == CycleLen(ai) - 3
        space == IF count \div RespawnSpread = 0 THEN 1 ELSE count \div RespawnSpread
    IN  {h \in 0 .. (count - 1) : h % space = 0}

Respawn(d) ==
    /\ Collision(d)
    /\ \E headIdx \in RespawnHeads(aiController) :
            snakes' = [snakes EXCEPT ![i + 1] =
                        NewSnake(startStateAt(aiController, headIdx),
                                 d.s.colorIndex, d.s.id)]
    /\ aiController' = [aiController EXCEPT !.seed = random(@).seed]
    /\ snakeTargets' = d.targets
    /\ Note(i, d, "respawn")
    /\ Advance(i)
    /\ UNCHANGED <<TILE_COLS, TILE_ROWS, foods, hung>>

\* collision: snakes[i] is replaced by a fresh snake, the rest of the iteration skipped
StepRespawn == CanStep /\ Respawn(Decision(i)) /\ UNCHANGED <<twin, hostVars>>

MovedLate(d, body) ==
    [snakes EXCEPT ![i + 1] = [d.s EXCEPT !.nextDx = d.dx, !.nextDy = d.dy, !.body = body]]

Moved(d, body) ==
    [snakes EXCEPT ![i + 1] =
        [d.s EXCEPT !.nextDx = d.dx, !.nextDy = d.dy, !.dx = d.dx, !.dy = d.dy,
                    !.body = body]]

Move(d) ==
    /\ ~Collision(d)
    /\ d.head \notin SeqToSet(foods)
    /\ snakes' = Moved(d, <<d.head>> \o SubSeq(d.s.body, 1, Len(d.s.body) - 1))
    /\ snakeTargets' = d.targets
    /\ Note(i, d, "move")
    /\ Advance(i)
    /\ UNCHANGED <<TILE_COLS, TILE_ROWS, aiController, foods, hung>>

\* no collision, no food under the new head: the tail is popped
StepMove == CanStep /\ Move(Decision(i)) /\ UNCHANGED <<twin, hostVars>>

\* foods.findIndex: the first index holding the cell, as a sequence position
findIndex(fs, cell) ==
    CHOOSE n \in 1 .. Len(fs) : fs[n] = cell /\ \A m \in 1 .. (n - 1) : fs[m] # cell

Eat(d) ==
    /\ ~Collision(d)
    /\ d.head \in SeqToSet(foods)
    /\ snakes' = Moved(d, <<d.head>> \o d.s.body)
    /\ \E fill \in maintainFoodCount(aiController, snakes',
                                     RemoveAt(foods, findIndex(foods, d.head))) :
            /\ foods' = fill.foods
            /\ hung' = ~fill.returned
            /\ IF fill.returned THEN Advance(i) ELSE UNCHANGED <<i, ticks, tickStart>>
    /\ snakeTargets' = MapDelete(d.targets, d.s.id)
    /\ Note(i, d, "eat")
    /\ UNCHANGED <<TILE_COLS, TILE_ROWS, aiController>>

\* no collision, food under the new head: the item is spliced out, the claim
\* deleted, the food count restored and the tail kept
StepEat == CanStep /\ Eat(Decision(i)) /\ UNCHANGED <<twin, hostVars>>

Next == StepRespawn \/ StepMove \/ StepEat

Spec == Init /\ [][Next]_vars

(***************************************************************************)
(* A world of one snake: initGame with a single getStartState call, whose  *)
(* offset may be any fraction, as in a respawn.                            *)
(***************************************************************************)
SoloGrids == {<<6, 6>>}

\* the value of Date.now() when the one-snake world is built
SoloClocks == {<<1001, 7, 410, 0>>}

soloWith(ai, headIdx) ==
    [ai |-> [ai EXCEPT !.seed = random(@).seed],
     snakes |-> <<NewSnake(startStateAt(ai, headIdx), 0, 0)>>]

InitSolo ==
    \E g \in SoloGrids, now \in SoloClocks :
      \E headIdx \in 0 .. (g[1] * g[2] - 4) :
        /\ InitWith(g, soloWith(init(NewSnakeAI(g[1], g[2], now, now)), headIdx))
        /\ \E fill \in maintainFoodCount(aiController, snakes, <<>>) :
                /\ foods = fill.foods
                /\ hung = ~fill.returned

SpecSolo == InitSolo /\ [][Next]_vars


(***************************************************************************)
(* CycleBuilder and DeterministicRandom alone: two SnakeAI objects built   *)
(* with the same arguments receive the same calls.                         *)
(***************************************************************************)
\* half the largest grid dimension
MaxHalf == 3

\* the largest seed argument
MaxSeed == 5

\* random() calls per object
MaxCalls == 3

CycleGrids == (1 .. 2 * MaxHalf) \X (1 .. 2 * MaxHalf)

Seeds == {NumOf(n) : n \in 0 .. MaxSeed}

InitCycle ==
    \E g \in CycleGrids, seedArg \in Seeds, nowA \in ClockValues, nowB \in ClockValues :
        /\ TILE_COLS = g[1]
        /\ TILE_ROWS = g[2]
        /\ aiController = NewSnakeAI(g[1], g[2], seedArg, nowA)
        /\ twin = [ai |-> NewSnakeAI(g[1], g[2], seedArg, nowB), seedArg |-> seedArg,
                   outA |-> <<>>, outB |-> <<>>, inited |-> FALSE, errors |-> 0,
                   mst |-> <<>>]
        /\ snakes = <<>>
        /\ foods = <<>>
        /\ snakeTargets = EmptyMap
        /\ i = 0
        /\ hung = FALSE
        /\ ticks = 0
        /\ last = NoLast
        /\ tickStart = <<>>
        /\ HostIdle

\* init() on both objects
BothInit ==
    /\ ~twin.inited
    /\ aiController' = init(aiController)
    /\ twin' = [twin EXCEPT !.ai = init(@), !.inited = TRUE,
                            !.errors = IF initReports(aiController) THEN @ + 1 ELSE @,
                            !.mst = IF initReports(aiController) THEN <<>>
                                    ELSE generateMST(aiController.seed, TILE_COLS \div 2,
                                                     TILE_ROWS \div 2).edges]
    /\ UNCHANGED <<TILE_COLS, TILE_ROWS, snakes, foods, snakeTargets, i, hung, ticks,
                   last, tickStart, hostVars>>

drawBoth(rA, rB) ==
    /\ aiController' = [aiController EXCEPT !.seed = rA.seed]
    /\ twin' = [twin EXCEPT !.ai.seed = rB.seed,
                            !.outA = Append(@, rA.k), !.outB = Append(@, rB.k)]

\* random() on both objects
BothRandom ==
    /\ Len(twin.outA) < MaxCalls
    /\ drawBoth(random(aiController.seed), random(twin.ai.seed))
    /\ UNCHANGED <<TILE_COLS, TILE_ROWS, snakes, foods, snakeTargets, i, hung, ticks,
                   last, tickStart, hostVars>>

NextCycle == BothInit \/ BothRandom

SpecCycle == InitCycle /\ [][NextCycle]_vars

(***************************************************************************)
(* The page: the boot call of resizeCanvas, the resize listener and the    *)
(* timers.  A handler runs alone; gameLoop's iterations are the steps of   *)
(* the handler that called gameTick.                                       *)
(***************************************************************************)
GRID_SIZE == 40

BASE_GAME_SPEED == 60

\* the delay of the resize listener's setTimeout
RESIZE_DELAY == 200

\* window.innerWidth, window.innerHeight
CanvasSizes == {<<200, 160>>, <<79, 160>>}

\* the values of Date.now() in resizeCanvas
HostClocks == SoloClocks

\* resize events in a run
MaxResizes == 2

\* calls of gameLoop in a run
HostTicks == 4

\* ms between two resize events of a burst
ResizeGaps == {100}

\* the refill the page model follows in resizeCanvas: of the arrays
\* maintainFoodCount can leave, the one in which every accepted draw is the
\* free tile nearest ahead of the first snake's head
RECURSIVE maintainFoodCountAhead(_, _, _)
maintainFoodCountAhead(ai, ss, fs) ==
    IF Len(fs) >= 5 THEN {[foods |-> fs, returned |-> TRUE]}
    ELSE IF FreeCells(ss, fs) = {} THEN {[foods |-> fs, returned |-> FALSE]}
    ELSE UNION {maintainFoodCountAhead(ai, ss, Append(fs, c)) :
                    c \in {c \in FreeCells(ss, fs) :
                            rankAhead(ai, FreeCells(ss, fs), ss[1].body[1], c) = 0}}

EvenDown(n) == IF n % 2 # 0 THEN n - 1 ELSE n

\* TILE_COLS, TILE_ROWS of resizeCanvas
TilesOf(size) == <<EvenDown(size[1] \div GRID_SIZE), EvenDown(size[2] \div GRID_SIZE)>>

\* resizeCanvas with an init() that throws: snakes = [] is done, the rest is not
RebuildThrows(g, ai) ==
    /\ TILE_COLS' = g[1]
    /\ TILE_ROWS' = g[2]
    /\ aiController' = initThrown(ai)
    /\ snakes' = <<>>
    /\ threw' = TRUE
    /\ running' = FALSE
    /\ UNCHANGED <<foods, hung, gameTimeout>>

\* resizeCanvas up to the refill of initGame
RebuildWorld(g, booted) ==
    /\ TILE_COLS' = g[1]
    /\ TILE_ROWS' = g[2]
    /\ aiController' = booted.ai
    /\ snakes' = booted.snakes
    /\ \E fill \in maintainFoodCountAhead(aiController, snakes, <<>>)' :
            /\ foods' = fill.foods
            /\ hung' = ~fill.returned
    /\ running' = TRUE
    /\ UNCHANGED threw

\* resizeCanvas up to the gameLoop call of gameTick
RebuildBoots(g, booted) ==
    /\ RebuildWorld(g, booted)
    /\ gameTimeout' = -1

Rebuild(g, ai) ==
    IF initThrows(ai) THEN RebuildThrows(g, ai) ELSE RebuildBoots(g, initSnakes(ai))

resizeCanvas(g, now) == Rebuild(g, NewSnakeAI(g[1], g[2], now, now))

\* the world and the timers after the boot call of resizeCanvas
Boot ==
    \E size \in CanvasSizes, now \in HostClocks :
        /\ TILE_COLS = TilesOf(size)[1]
        /\ TILE_ROWS = TilesOf(size)[2]
        /\ IF initThrows(NewSnakeAI(TILE_COLS, TILE_ROWS, now, now))
           THEN /\ aiController = initThrown(NewSnakeAI(TILE_COLS, TILE_ROWS, now, now))
                /\ snakes = <<>>
                /\ foods = <<>>
                /\ hung = FALSE
                /\ threw = TRUE
                /\ running = FALSE
           ELSE /\ \E booted \in {initSnakes(NewSnakeAI(TILE_COLS, TILE_ROWS, now, now))} :
                        /\ aiController = booted.ai
                        /\ snakes = booted.snakes
                /\ \E fill \in maintainFoodCountAhead(aiController, snakes, <<>>) :
                        /\ foods = fill.foods
                        /\ hung = ~fill.returned
                /\ threw = FALSE
                /\ running = TRUE
        /\ snakeTargets = EmptyMap
        /\ i = 0
        /\ ticks = 0
        /\ last = NoLast
        /\ tickStart = snakes
        /\ resizeTimers = <<>>
        /\ gameTimeout = -1
        /\ burst = NoBurst

\* the page after the boot call of resizeCanvas
InitHost == Boot /\ twin = NoLast

\* no handler is running and the page is not stuck in one
Idle == ~running /\ ~hung

InBurst == burst.since # -1 /\ burst.since < RESIZE_DELAY

\* the resize listener: clearTimeout(gameTimeout); setTimeout(resizeCanvas, 200).
\* A resize timer that is due runs before the next event is delivered.
HostResize ==
    /\ Idle
    /\ \A n \in 1 .. Len(resizeTimers) : resizeTimers[n] > 0
    /\ burst.total < MaxResizes
    /\ gameTimeout' = -1
    /\ resizeTimers' = Append(resizeTimers, RESIZE_DELAY)
    /\ burst' = [events |-> IF InBurst THEN burst.events + 1 ELSE 1,
                 since |-> 0,
                 rebuilds |-> IF InBurst THEN burst.rebuilds ELSE 0,
                 early |-> IF InBurst THEN burst.early ELSE FALSE,
                 total |-> burst.total + 1]
    /\ UNCHANGED <<TILE_COLS, TILE_ROWS, aiController, snakes, foods, snakeTargets, i,
                   hung, ticks, last, tickStart, twin, running, threw>>

\* the ms left of the timer that is due first, or -1 when no timer is live
NextDue ==
    IF Len(resizeTimers) > 0
    THEN (IF gameTimeout # -1 /\ gameTimeout < resizeTimers[1]
          THEN gameTimeout ELSE resizeTimers[1])
    ELSE gameTimeout

Elapsed(d) ==
    /\ d > 0
    /\ NextDue = -1 \/ d <= NextDue
    /\ resizeTimers' = [n \in 1 .. Len(resizeTimers) |-> resizeTimers[n] - d]
    /\ gameTimeout' = IF gameTimeout = -1 THEN -1 ELSE gameTimeout - d
    /\ burst' = [burst EXCEPT !.since = IF @ = -1 THEN -1
                                        ELSE IF @ + d > RESIZE_DELAY THEN RESIZE_DELAY
                                        ELSE @ + d]

\* time passes, up to the next timer or up to the next resize event
HostElapse ==
    /\ Idle
    /\ \E d \in ResizeGaps \cup {NextDue} : Elapsed(d)
    /\ UNCHANGED <<TILE_COLS, TILE_ROWS, aiController, snakes, foods, snakeTargets, i,
                   hung, ticks, last, tickStart, twin, running, threw>>

\* the oldest setTimeout(resizeCanvas, 200) fires
HostRebuild ==
    /\ Idle
    /\ Len(resizeTimers) > 0
    /\ resizeTimers[1] = 0
    /\ resizeTimers' = Tail(resizeTimers)
    /\ \E size \in CanvasSizes, now \in HostClocks : resizeCanvas(TilesOf(size), now)
    /\ burst' = [burst EXCEPT !.rebuilds = @ + 1,
                              !.early = @ \/ burst.since < RESIZE_DELAY]
    /\ i' = 0
    /\ last' = NoLast
    /\ tickStart' = snakes'
    /\ UNCHANGED <<snakeTargets, ticks, twin>>

\* the timer of gameTimeout fires: gameTick calls gameLoop
HostTick ==
    /\ Idle
    /\ gameTimeout = 0
    /\ gameTimeout' = -1
    /\ running' = TRUE
    /\ UNCHANGED <<TILE_COLS, TILE_ROWS, aiController, snakes, foods, snakeTargets, i,
                   hung, ticks, last, tickStart, twin, resizeTimers, threw, burst>>

\* gameLoop may take its next iteration
CanLoop == running /\ ~hung /\ Len(snakes) > 0 /\ (i > 0 \/ ticks < HostTicks)

\* after the last iteration gameTick sets the next timer and the handler ends
LoopEnds ==
    /\ running' = (i' # 0 \/ hung')
    /\ gameTimeout' = IF i' = 0 /\ ~hung' THEN BASE_GAME_SPEED ELSE gameTimeout
    /\ UNCHANGED <<twin, resizeTimers, threw, burst>>

HostRespawn == CanLoop /\ Respawn(Decision(i)) /\ LoopEnds

HostMove == CanLoop /\ Move(Decision(i)) /\ LoopEnds

HostEat == CanLoop /\ Eat(Decision(i)) /\ LoopEnds

\* gameLoop over an empty snakes array
HostEmptyLoop ==
    /\ running /\ ~hung /\ Len(snakes) = 0 /\ ticks < HostTicks
    /\ ticks' = ticks + 1
    /\ running' = FALSE
    /\ gameTimeout' = BASE_GAME_SPEED
    /\ UNCHANGED <<TILE_COLS, TILE_ROWS, aiController, snakes, foods, snakeTargets, i,
                   hung, last, tickStart, twin, resizeTimers, threw, burst>>

NextHost ==
    \/ HostResize \/ HostElapse \/ HostRebuild \/ HostTick
    \/ HostRespawn \/ HostMove \/ HostEat \/ HostEmptyLoop

SpecHost == InitHost /\ [][NextHost]_vars

(***************************************************************************)
(* Two runs from one seed: a simulation runs some ticks, then a second     *)
(* simulation is started with the same grid dimensions and the same seed   *)
(* and runs as many ticks; twin keeps what the first one had reached.      *)
(***************************************************************************)
\* the ticks the first simulation runs at most
PairTicks == 4

PairClocks == SoloClocks

\* the first simulation after resizeCanvas; both simulations are followed from
\* the same first refill, and through every refill and respawn after it
InitPair ==
    \E g \in Grids, now \in PairClocks :
        /\ TILE_COLS = g[1]
        /\ TILE_ROWS = g[2]
        /\ \E booted \in {initSnakes(NewSnakeAI(g[1], g[2], now, now))} :
                /\ aiController = booted.ai
                /\ snakes = booted.snakes
        /\ \E fill \in maintainFoodCountAhead(aiController, snakes, <<>>) :
                /\ foods = fill.foods
                /\ hung = ~fill.returned
        /\ snakeTargets = EmptyMap
        /\ i = 0
        /\ ticks = 0
        /\ last = NoLast
        /\ tickStart = snakes
        /\ twin = [run |-> 1, seed |-> now]
        /\ HostIdle

\* the second simulation starts: new SnakeAI(TILE_COLS, TILE_ROWS, seed) with the
\* seed of the first, initGame, a new snakeTargets map
SecondRun ==
    /\ twin.run = 1
    /\ i = 0 /\ ~hung
    /\ twin' = [run |-> 2, seed |-> twin.seed, ticks |-> ticks,
                snakes |-> snakes, foods |-> foods]
    /\ UNCHANGED <<TILE_COLS, TILE_ROWS>>
    /\ \E booted \in {initSnakes(NewSnakeAI(TILE_COLS, TILE_ROWS, twin.seed, twin.seed))} :
            /\ aiController' = booted.ai
            /\ snakes' = booted.snakes
    /\ \E fill \in maintainFoodCountAhead(aiController, snakes, <<>>)' :
            /\ foods' = fill.foods
            /\ hung' = ~fill.returned
    /\ snakeTargets' = EmptyMap
    /\ i' = 0
    /\ ticks' = 0
    /\ last' = NoLast
    /\ tickStart' = snakes'
    /\ UNCHANGED hostVars

\* the first simulation runs PairTicks ticks, the second as many as the first did
CanPair ==
    /\ ~hung
    /\ i > 0 \/ ticks < (IF twin.run = 1 THEN PairTicks ELSE twin.ticks)

PairRespawn == CanPair /\ Respawn(Decision(i)) /\ UNCHANGED <<twin, hostVars>>

PairMove == CanPair /\ Move(Decision(i)) /\ UNCHANGED <<twin, hostVars>>

PairEat == CanPair /\ Eat(Decision(i)) /\ UNCHANGED <<twin, hostVars>>

NextPair == SecondRun \/ PairRespawn \/ PairMove \/ PairEat

SpecPair == InitPair /\ [][NextPair]_vars

(***************************************************************************)
(* findNearestFood alone: the two snakes of a tick search in array order,  *)
(* over food lists and claim maps of any content.                          *)
(***************************************************************************)
\* the longest food list
MaxFoods == 2

\* the cycle indices the food items are taken from
FoodSpots == {4, 5, 12}

\* the cycle indices the two heads are taken from
SearchHeads == {2, 9}

\* the food lists: up to MaxFoods distinct cells
FoodLists(ai) ==
    {fs \in UNION {[1 .. n -> {CycleAt(ai, c) : c \in FoodSpots}] : n \in 0 .. MaxFoods} :
        \A n \in 1 .. Len(fs), m \in 1 .. Len(fs) : n # m => fs[n] # fs[m]}

\* the claim maps: any of the two ids to any index up to MaxFoods, so that the
\* last index is beyond the end of every list
ClaimMaps == UNION {[ids -> 0 .. MaxFoods] : ids \in SUBSET {0, 1}}

InitTargets ==
    \E g \in Grids, now \in ClockValues :
        /\ TILE_COLS = g[1]
        /\ TILE_ROWS = g[2]
        /\ aiController = init(NewSnakeAI(g[1], g[2], now, now))
        /\ \E h0 \in SearchHeads, h1 \in SearchHeads :
                snakes = <<NewSnake(startStateAt(aiController, h0), 0, 0),
                           NewSnake(startStateAt(aiController, h1), 1, 1)>>
        /\ foods \in FoodLists(aiController)
        /\ snakeTargets \in ClaimMaps
        /\ i = 0
        /\ hung = FALSE
        /\ ticks = 0
        /\ last = NoLast
        /\ tickStart = snakes
        /\ twin = NoLast
        /\ HostIdle

Searched(s, found) ==
    /\ snakeTargets' = found.targets
    /\ last' = [id |-> s.id, idx |-> i, from |-> s.body[1], foods |-> foods,
                claims |-> snakeTargets, targets |-> found.targets,
                nearest |-> found.nearest]

\* findNearestFood(head, foods, id, snakeTargets) for the next snake
Search ==
    /\ i < Len(snakes)
    /\ Searched(snakes[i + 1],
                findNearestFood(aiController, snakes[i + 1].body[1], foods,
                                snakes[i + 1].id, snakeTargets))
    /\ i' = i + 1
    /\ UNCHANGED <<TILE_COLS, TILE_ROWS, aiController, snakes, foods, hung, ticks,
                   tickStart, twin, hostVars>>

NextTargets == Search

SpecTargets == InitTargets /\ [][NextTargets]_vars

(***************************************************************************)
(* getDangerScore and floodFill alone, called once with any cell and       *)
(* obstacle set; twin keeps the obstacle set, the call and its result.     *)
(***************************************************************************)
\* the side of the grid with more than 300 cells
WideSide == 18

SenseGrids == {<<3, 3>>, <<WideSide, WideSide>>}

Column(px, h) == {Pos(px, py) : py \in 0 .. (h - 1)}

\* the obstacle sets: every set on the small grid; on the wide one none, a
\* wall from top to bottom, and two single cells
ObstacleSets(g) ==
    IF g[1] * g[2] <= 9 THEN SUBSET Cells(g[1], g[2])
    ELSE {{}, Column(g[1] \div 2, g[2]), {Pos(5, 5), Pos(6, 5)}}

\* the cells the functions are called with
SensePoints(g) ==
    IF g[1] * g[2] <= 9 THEN Cells(g[1], g[2])
    ELSE {Pos(0, 0), Pos(g[1] - 1, g[2] - 1), Pos(g[1] \div 2, 9),
          Pos(g[1] \div 2 - 1, 9), Pos(5, 5), Pos(4, 5)}

InitSense ==
    \E g \in SenseGrids, now \in SoloClocks :
        /\ TILE_COLS = g[1]
        /\ TILE_ROWS = g[2]
        /\ aiController = NewSnakeAI(g[1], g[2], now, now)
        /\ \E obs \in ObstacleSets(g) :
                twin = [obstacles |-> obs, op |-> "none", at |-> Pos(0, 0), out |-> 0]
        /\ snakes = <<>>
        /\ foods = <<>>
        /\ snakeTargets = EmptyMap
        /\ i = 0
        /\ hung = FALSE
        /\ ticks = 0
        /\ last = NoLast
        /\ tickStart = <<>>
        /\ HostIdle

\* getDangerScore(pos, obstaclesSet)
Danger ==
    /\ twin.op = "none"
    /\ \E pos \in SensePoints(<<TILE_COLS, TILE_ROWS>>) :
            twin' = [twin EXCEPT !.op = "danger", !.at = pos,
                                 !.out = getDangerScore(aiController, pos, twin.obstacles)]
    /\ UNCHANGED <<TILE_COLS, TILE_ROWS, aiController, snakes, foods, snakeTargets, i,
                   hung, ticks, last, tickStart, hostVars>>

\* floodFill(start, obstacles)
Fill ==
    /\ twin.op = "none"
    /\ \E start \in SensePoints(<<TILE_COLS, TILE_ROWS>>) :
            twin' = [twin EXCEPT !.op = "fill", !.at = start,
                                 !.out = floodFill(aiController, start, twin.obstacles)]
    /\ UNCHANGED <<TILE_COLS, TILE_ROWS, aiController, snakes, foods, snakeTargets, i,
                   hung, ticks, last, tickStart, hostVars>>

NextSense == Danger \/ Fill

SpecSense == InitSense /\ [][NextSense]_vars

(***************************************************************************)
(* The tick timers of the page, one by one: gameTimeout is the timer the   *)
(* variable names, twin.others the live timers gameTick has set that it    *)
(* names no longer, and twin.live the rebuilds that found a tick timer     *)
(* live. A handler that calls gameTick overwrites gameTimeout when         *)
(* gameLoop has returned; no time passes in between, so the timer it       *)
(* still names joins twin.others as the handler starts.                    *)
(***************************************************************************)
\* if (gameTimeout) clearTimeout(gameTimeout) of initGame: the ms left of the
\* timer gameTimeout names afterwards
cancelTickSkipped(t) == t

cancelTick(t) == -1

\* the live tick timers once gameTick has overwritten gameTimeout
Outlived(others, t) == IF t = -1 THEN others ELSE Append(others, t)

InitTimers == Boot /\ twin = [others |-> <<>>, live |-> 0]

\* the ms left of every live timer
TimersLeft ==
    {resizeTimers[n] : n \in 1 .. Len(resizeTimers)}
        \cup {twin.others[n] : n \in 1 .. Len(twin.others)}
        \cup ({gameTimeout} \ {-1})

\* time passes, up to the next timer or up to the next resize event
TimersElapse ==
    /\ Idle
    /\ \E d \in ResizeGaps \cup TimersLeft :
            /\ d > 0
            /\ \A t \in TimersLeft : d <= t
            /\ resizeTimers' = [n \in 1 .. Len(resizeTimers) |-> resizeTimers[n] - d]
            /\ gameTimeout' = IF gameTimeout = -1 THEN -1 ELSE gameTimeout - d
            /\ twin' = [twin EXCEPT !.others = [n \in 1 .. Len(@) |-> @[n] - d]]
            /\ burst' = [burst EXCEPT !.since = IF @ = -1 THEN -1
                                                ELSE IF @ + d > RESIZE_DELAY THEN RESIZE_DELAY
                                                ELSE @ + d]
    /\ UNCHANGED <<TILE_COLS, TILE_ROWS, aiController, snakes, foods, snakeTargets, i,
                   hung, ticks, last, tickStart, running, threw>>

\* the oldest setTimeout(resizeCanvas, 200) fires
TimersRebuild ==
    /\ Idle
    /\ Len(resizeTimers) > 0
    /\ resizeTimers[1] = 0
    /\ resizeTimers' = Tail(resizeTimers)
    /\ \E size \in CanvasSizes, now \in HostClocks :
            IF initThrows(NewSnakeAI(TilesOf(size)[1], TilesOf(size)[2], now, now))
            THEN /\ RebuildThrows(TilesOf(size),
                                  NewSnakeAI(TilesOf(size)[1], TilesOf(size)[2], now, now))
                 /\ UNCHANGED twin
            ELSE /\ RebuildWorld(TilesOf(size),
                                 initSnakes(NewSnakeAI(TilesOf(size)[1], TilesOf(size)[2],
                                                       now, now)))
                 /\ gameTimeout' = -1
                 /\ twin' = [others |-> Outlived(twin.others, cancelTick(gameTimeout)),
                             live |-> IF gameTimeout = -1 THEN twin.live ELSE twin.live + 1]
    /\ burst' = [burst EXCEPT !.rebuilds = @ + 1,
                              !.early = @ \/ burst.since < RESIZE_DELAY]
    /\ i' = 0
    /\ last' = NoLast
    /\ tickStart' = snakes'
    /\ UNCHANGED <<snakeTargets, ticks>>

\* the tick timers that are due: 0 for the one gameTimeout names
DueTicks ==
    {n \in 0 .. Len(twin.others) : IF n = 0 THEN gameTimeout = 0 ELSE twin.others[n] = 0}

\* a tick timer fires: gameTick calls gameLoop
TimersTick ==
    /\ Idle
    /\ \E n \in DueTicks :
            /\ gameTimeout' = -1
            /\ twin' = [twin EXCEPT !.others =
                            IF n = 0 THEN @ ELSE Outlived(RemoveAt(@, n), gameTimeout)]
    /\ running' = TRUE
    /\ UNCHANGED <<TILE_COLS, TILE_ROWS, aiController, snakes, foods, snakeTargets, i,
                   hung, ticks, last, tickStart, resizeTimers, threw, burst>>

NextTimers ==
    \/ HostResize \/ TimersElapse \/ TimersRebuild \/ TimersTick
    \/ HostRespawn \/ HostMove \/ HostEat \/ HostEmptyLoop

SpecTimers == InitTimers /\ [][NextTimers]_vars

(***************************************************************************)
(* DeterministicRandom alone: two SnakeAI objects whose seed arguments     *)
(* differ by a multiple of 2^32 draw from random() in lockstep; twin keeps *)
(* the second object and both output streams.                              *)
(***************************************************************************)
\* random() calls per object
MaxDraws == 5

\* the low 32 bits of the seed arguments
LowWords == {<<0, 0>>, <<1, 0>>, <<2, 0>>, <<65535, 0>>, <<1, 32768>>, <<31221, 27947>>,
             <<34315, 37588>>, <<65535, 65535>>}

\* the bits above them, for the first and for the second object: multiples of
\* 2^32 up to 2^53 - 2^32, so that every seed argument is a JS number
HighWords == {<<<<0, 0>>, <<0, 0>>>>, <<<<0, 0>>, <<1, 0>>>>, <<<<1, 0>>, <<2, 0>>>>,
              <<<<0, 0>>, <<65535, 31>>>>, <<<<0, 0>>, <<65534, 31>>>>}

InitStream ==
    \E low \in LowWords, high \in HighWords, now \in SoloClocks :
        /\ TILE_COLS = 2
        /\ TILE_ROWS = 2
        /\ aiController = NewSnakeAI(2, 2, <<low[1], low[2], high[1][1], high[1][2]>>, now)
        /\ twin = [ai |-> NewSnakeAI(2, 2, <<low[1], low[2], high[2][1], high[2][2]>>, now),
                   seedA |-> <<low[1], low[2], high[1][1], high[1][2]>>,
                   seedB |-> <<low[1], low[2], high[2][1], high[2][2]>>,
                   outA |-> <<>>, outB |-> <<>>]
        /\ snakes = <<>>
        /\ foods = <<>>
        /\ snakeTargets = EmptyMap
        /\ i = 0
        /\ hung = FALSE
        /\ ticks = 0
        /\ last = NoLast
        /\ tickStart = <<>>
        /\ HostIdle

\* random() on both objects
StreamRandom ==
    /\ Len(twin.outA) < MaxDraws
    /\ drawBoth(random(aiController.seed), random(twin.ai.seed))
    /\ UNCHANGED <<TILE_COLS, TILE_ROWS, snakes, foods, snakeTargets, i, hung, ticks,
                   last, tickStart, hostVars>>

NextStream == StreamRandom

SpecStream == InitStream /\ [][NextStream]_vars

(***************************************************************************)
(* The world of one snake with the run for the nearest item kept in twin:  *)
(* the tick at which the run began (at the start, after a meal, after a    *)
(* respawn, or once no item lies on the body any more), how far ahead the  *)
(* nearest item was then, the shortcuts taken since, and how the run       *)
(* before ended.                                                           *)
(***************************************************************************)
NoRun == [dist |-> 0, took |-> 0, cuts |-> 0, how |-> "none"]

\* forward distance along the cycle from the head of the only snake to a cell
headDist(ai, ss, cell) ==
    CycleDist(ai, getCycleIndex(ai, ss[1].body[1]), getCycleIndex(ai, cell))

\* the position in fs of the item nearest ahead of the head
nearestAhead(ai, ss, fs) ==
    CHOOSE n \in 1 .. Len(fs) :
        \A m \in 1 .. Len(fs) : headDist(ai, ss, fs[n]) <= headDist(ai, ss, fs[m])

\* a run beginning at tick t: dist is 0 when an item lies on the body or the
\* refill has not returned
runFrom(ai, ss, fs, t, stuck, before) ==
    IF stuck \/ Len(fs) = 0 \/ SeqToSet(fs) \cap SeqToSet(ss[1].body) # {}
    THEN [since |-> t, dist |-> 0, food |-> Null, cuts |-> 0, prev |-> before]
    ELSE [since |-> t, dist |-> headDist(ai, ss, fs[nearestAhead(ai, ss, fs)]),
          food |-> fs[nearestAhead(ai, ss, fs)], cuts |-> 0, prev |-> before]

\* what is kept of the run that ends in this step
runEnded(how) ==
    [dist |-> twin.dist, took |-> ticks + 1 - twin.since, cuts |-> twin.cuts, how |-> how]

\* how far ahead of the head the nearest item of the first refill may be
ChaseGaps == {2, 6, 28}

\* a first refill whose draws are the five cells gap, gap + 1, ... cells ahead
\* of the head of the only snake
foodsAhead(ai, ss, gap) ==
    [n \in 1 .. 5 |-> CycleAt(ai, (getCycleIndex(ai, ss[1].body[1]) + gap + n - 1)
                                   % CycleLen(ai))]

InitChase ==
    \E g \in SoloGrids, now \in SoloClocks :
      \E headIdx \in 0 .. (g[1] * g[2] - 4), gap \in ChaseGaps :
        /\ WorldWith(g, soloWith(init(NewSnakeAI(g[1], g[2], now, now)), headIdx))
        /\ foods = foodsAhead(aiController, snakes, gap)
        /\ hung = FALSE
        /\ twin = runFrom(aiController, snakes, foods, 0, hung, NoRun)

ChaseRespawn ==
    /\ CanStep
    /\ Respawn(Decision(i))
    /\ twin' = runFrom(aiController', snakes', foods', ticks', hung', runEnded("respawn"))
    /\ UNCHANGED hostVars

ChaseMove ==
    /\ CanStep
    /\ Move(Decision(i))
    /\ twin' = IF twin.dist = 0
               THEN runFrom(aiController', snakes', foods', ticks', hung', twin.prev)
               ELSE [twin EXCEPT !.cuts = IF last'.move.type = "shortcut" THEN @ + 1 ELSE @]
    /\ UNCHANGED hostVars

ChaseEat ==
    /\ CanStep
    /\ Eat(Decision(i))
    /\ twin' = runFrom(aiController', snakes', foods', ticks', hung', runEnded("eat"))
    /\ UNCHANGED hostVars

NextChase == ChaseRespawn \/ ChaseMove \/ ChaseEat

SpecChase == InitChase /\ [][NextChase]_vars

(***************************************************************************)
(* getNextMove alone: one call on an initialized controller for a snake of *)
(* three cells lying on the cycle, five items ahead of it and a list of    *)
(* obstacles; twin keeps the arguments and the move returned.              *)
(***************************************************************************)
MoveGrids == {<<4, 4>>, <<4, 6>>, <<6, 6>>}

\* a body of len cells lying backward along the cycle from index headIdx
bodyAt(ai, headIdx, len) ==
    [n \in 1 .. len |-> CycleAt(ai, (headIdx + CycleLen(ai) - (n - 1)) % CycleLen(ai))]

\* the obstacle lists passed in: none, and the first one, two or three cells of
\* another snake lying anywhere on the cycle
ObstacleLists(ai) ==
    {<<>>} \cup {bodyAt(ai, at, len) : at \in 0 .. (CycleLen(ai) - 1), len \in 1 .. 3}

\* how far ahead of the head the nearest of the five items lies
MoveGaps(ai) == {3, CycleLen(ai) \div 2, CycleLen(ai) - 8}

InitMoves ==
    \E g \in MoveGrids, now \in SoloClocks :
        /\ TILE_COLS = g[1]
        /\ TILE_ROWS = g[2]
        /\ aiController = init(NewSnakeAI(g[1], g[2], now, now))
        /\ twin = [op |-> "none"]
        /\ snakes = <<>>
        /\ foods = <<>>
        /\ snakeTargets = EmptyMap
        /\ i = 0
        /\ hung = FALSE
        /\ ticks = 0
        /\ last = NoLast
        /\ tickStart = <<>>
        /\ HostIdle

\* getNextMove(snake, foods, null, obstacles, 0, snakeTargets)
Asked(snake, fs, obstacles) ==
    twin' = [op |-> "move", snake |-> snake, foods |-> fs, obstacles |-> obstacles,
             move |-> getNextMove(aiController, snake, fs, Null, obstacles, 0,
                                  snakeTargets).move]

Ask ==
    /\ twin.op = "none"
    /\ \E headIdx \in 0 .. (CycleLen(aiController) - 1), gap \in MoveGaps(aiController) :
         \E obstacles \in ObstacleLists(aiController) :
            Asked(bodyAt(aiController, headIdx, 3),
                  foodsAhead(aiController, <<[body |-> bodyAt(aiController, headIdx, 3)]>>, gap),
                  obstacles)
    /\ UNCHANGED <<TILE_COLS, TILE_ROWS, aiController, snakes, foods, snakeTargets, i,
                   hung, ticks, last, tickStart, hostVars>>

NextMoves == Ask

SpecMoves == InitMoves /\ [][NextMoves]_vars

(***************************************************************************)
(* Properties                                                              *)
(***************************************************************************)
\* gameLoop has returned: the state between two ticks
TickBoundary == i = 0 /\ ~hung

Noted == last.id # -1

ValidCycle(ai) ==
    /\ Len(ai.hamiltonianCycle) = ai.cols * ai.rows
    /\ SeqToSet(ai.hamiltonianCycle) = Cells(ai.cols, ai.rows)
    /\ \A n \in 1 .. Len(ai.hamiltonianCycle), m \in 1 .. Len(ai.hamiltonianCycle) :
            n # m => ai.hamiltonianCycle[n] # ai.hamiltonianCycle[m]
    /\ \A n \in 1 .. Len(ai.hamiltonianCycle) :
            Adjacent(ai.hamiltonianCycle[n],
                     ai.hamiltonianCycle[(n % Len(ai.hamiltonianCycle)) + 1])

\* C1: for even cols and rows and every seed, the sequence generateHamiltonianCycle
\* builds has length cols*rows, holds every grid cell exactly once, and every
\* cyclically consecutive pair of it (last to first included) is one step apart
\* in exactly one coordinate.
C1_CycleIsHamiltonian ==
    aiController.isInitialized => ValidCycle(aiController) /\ ValidCycle(twin.ai)

\* a cycle has been built on the 6x4 grid, from an explicit seed
C1_Witness ==
    /\ aiController.isInitialized
    /\ TILE_COLS = 6 /\ TILE_ROWS = 4
    /\ twin.seedArg = NumOf(MaxSeed)
    /\ ValidCycle(aiController)

\* C2: for every seed value, 0 included, two SnakeAI objects constructed with the
\* same (cols, rows, seed) build the same Hamiltonian cycle and return the same
\* random() outputs.
C2_SameArgumentsSameOutputs ==
    /\ twin.outA = twin.outB
    /\ aiController.hamiltonianCycle = twin.ai.hamiltonianCycle

BodyInBounds(body) == \A n \in 1 .. Len(body) : InGrid(body[n], TILE_COLS, TILE_ROWS)

BodyDistinct(body) == \A n \in 1 .. Len(body), m \in 1 .. Len(body) : n # m => body[n] # body[m]

BodyConnected(body) == \A n \in 1 .. (Len(body) - 1) : Adjacent(body[n], body[n + 1])

\* C3: at every tick boundary, after any ticks and respawns, every snake's body
\* cells are inside the grid, pairwise distinct, and consecutive ones 4-adjacent.
C3_BodiesWellFormed ==
    TickBoundary =>
        \A n \in 1 .. Len(snakes) :
            /\ BodyInBounds(snakes[n].body)
            /\ BodyDistinct(snakes[n].body)
            /\ BodyConnected(snakes[n].body)

\* a tick ends with a respawn while the other snake has grown
C3_Witness ==
    /\ TickBoundary /\ ticks >= 2 /\ Noted /\ last.did = "respawn"
    /\ \E n \in 1 .. Len(snakes) : Len(snakes[n].body) >= 5

\* C4: at every tick boundary, whatever collisions and respawns came before, no
\* two distinct snakes share a body cell.
C4_NoSharedCell ==
    TickBoundary =>
        \A n \in 1 .. Len(snakes), m \in 1 .. Len(snakes) :
            n # m => SeqToSet(snakes[n].body) \cap SeqToSet(snakes[m].body) = {}

\* C5: at every tick boundary, whatever respawns came before, no food item lies
\* on a body cell of any snake.
C5_FoodOffBodies == TickBoundary => SeqToSet(foods) \cap Bodies(snakes) = {}

Min(a, b) == IF a < b THEN a ELSE b

\* C6: at every tick boundary the number of food items is at least
\* min(5, number of cells free of snake bodies), and an eaten item has been
\* replaced when the iteration that ate it is over.
C6_FoodCount ==
    /\ TickBoundary =>
        Len(foods) >= Min(5, Cardinality(Cells(TILE_COLS, TILE_ROWS) \ Bodies(snakes)))
    /\ (Noted /\ last.did = "eat" /\ ~hung) => Len(foods) >= 5

\* a tick ends with an eating move, the eater at least five cells long
C6_Witness ==
    /\ TickBoundary /\ Noted /\ last.did = "eat" /\ last.len >= 4
    /\ Len(foods) = 5

\* C7: food replenishment always ends: when no free cell is found,
\* maintainFoodCount returns with fewer than five items and the tick completes.
C7_ReplenishmentReturns == ~hung

C9_NullMoveRespawns ==
    (Noted /\ last.move = Null) =>
        /\ last.head = Pos(last.from.x + last.prev.x, last.from.y + last.prev.y)
        /\ last.wall \/ last.self \/ last.other
        /\ last.did = "respawn"

\* a snake without a move was respawned
C9_Witness == Noted /\ last.move = Null /\ last.did = "respawn"

\* C10: a single snake never runs into its own body while it is shorter than
\* cols*rows, whatever the food placement.
C10_NoSelfCollision ==
    Noted => ~(last.self /\ last.len < TILE_COLS * TILE_ROWS)

\* the indices the searching snake may not take: those another id has claimed
ClaimedByOthers == {last.claims[oid] : oid \in DOMAIN last.claims \ {last.id}}

Unclaimed == {n \in 0 .. (Len(last.foods) - 1) : n \notin ClaimedByOthers}

\* forward distance along the cycle from the searching head to a cell
Ahead(cell) ==
    CycleDist(aiController, getCycleIndex(aiController, last.from),
              getCycleIndex(aiController, cell))

\* C11: with the snakes searching in ascending id order, a search skips every
\* food index a different snake has claimed: it records and returns the nearest
\* item among the others, and when none is left it returns null and records
\* no claim.
C11_SearchSkipsClaimed ==
    Noted =>
        IF Unclaimed = {}
        THEN last.nearest = Null /\ last.targets = last.claims
        ELSE /\ last.id \in DOMAIN last.targets
             /\ last.targets[last.id] \in Unclaimed
             /\ last.nearest = last.foods[last.targets[last.id] + 1]
             /\ \A n \in Unclaimed : Ahead(last.nearest) <= Ahead(last.foods[n + 1])
             /\ \A oid \in DOMAIN last.claims \ {last.id} :
                    oid \in DOMAIN last.targets /\ last.targets[oid] = last.claims[oid]

\* snake 1 searches after snake 0 has claimed the item nearest to both, and
\* takes the other one
C11_Witness ==
    /\ Noted /\ last.idx = 1 /\ Len(last.foods) = 2
    /\ 0 \in DOMAIN last.claims /\ last.claims[0] < 2
    /\ last.nearest # Null
    /\ Ahead(last.foods[last.claims[0] + 1]) < Ahead(last.nearest)

\* C12: an entry of snakeTargets designates, as long as it exists, the food
\* item its snake selected: when a snake eats an item, the entry of every other
\* snake that designated another item still designates that item.
C12_ClaimsFollowItems ==
    (Noted /\ last.did = "eat" /\ ~hung) =>
        \A oid \in DOMAIN snakeTargets \ {last.id} :
            last.foods[snakeTargets[oid] + 1] # last.head =>
                foods[snakeTargets[oid] + 1] = last.foods[snakeTargets[oid] + 1]

\* C13: with an odd grid dimension init refuses to build: it reports an error
\* and leaves the cycle empty, the position-to-index map empty and
\* isInitialized false.
C13_OddGridRefused ==
    (twin.inited /\ (TILE_COLS % 2 # 0 \/ TILE_ROWS % 2 # 0)) =>
        /\ twin.errors = 1
        /\ ~aiController.isInitialized
        /\ aiController.hamiltonianCycle = <<>>
        /\ aiController.cycleMap = <<>>

\* init() has been called on a 5x4 grid
C13_Witness ==
    /\ twin.inited /\ TILE_COLS = 5 /\ TILE_ROWS = 4
    /\ ~aiController.isInitialized /\ twin.errors = 1

\* C14: nothing the page runs throws: on every grid resizeCanvas derives from
\* a canvas size, a dimension of 0 included, building the cycle, spawning the
\* snakes and running ticks complete without an exception.
C14_NeverThrows == ~threw

\* C15: the rebuilds are debounced: while resize events follow each other by
\* less than 200 ms, no resizeCanvas runs before 200 ms have passed since the
\* last event, and at most one runs for the whole burst.
C15_RebuildsDebounced == ~burst.early /\ burst.rebuilds <= 1

\* the positions of every snake's body and of every food item
Placement(ss, fs) == <<[n \in 1 .. Len(ss) |-> ss[n].body], fs>>

\* C16: two simulations started with the same grid dimensions and the same
\* seed have, after the same number of ticks, the same snake bodies and the
\* same food positions.
C16_SameSeedSameRun ==
    (twin.run = 2 /\ TickBoundary /\ ticks = twin.ticks) =>
        Placement(snakes, foods) = Placement(twin.snakes, twin.foods)

\* the step just taken is an iteration of gameLoop that found a collision
Collided ==
    /\ <<i, ticks>>' # <<i, ticks>>
    /\ Noted'
    /\ last'.wall \/ last'.self \/ last'.other

\* snakes[i] is replaced by a fresh three-cell snake, nothing else is touched
RespawnedInPlace ==
    /\ last'.did = "respawn"
    /\ Len(snakes') = Len(snakes)
    /\ snakes'[i + 1].id = snakes[i + 1].id
    /\ snakes'[i + 1].colorIndex = snakes[i + 1].colorIndex
    /\ Len(snakes'[i + 1].body) = 3
    /\ \A n \in 1 .. 2 :
            getCycleIndex(aiController, snakes'[i + 1].body[n]) =
                (getCycleIndex(aiController, snakes'[i + 1].body[n + 1]) + 1)
                    % CycleLen(aiController)
    /\ snakes'[i + 1].dx = snakes'[i + 1].body[1].x - snakes'[i + 1].body[2].x
    /\ snakes'[i + 1].dy = snakes'[i + 1].body[1].y - snakes'[i + 1].body[2].y
    /\ \A n \in 1 .. Len(snakes) : n # i + 1 => snakes'[n] = snakes[n]
    /\ foods' = foods
    /\ snakeTargets' = last'.targets

\* C17: on a collision (new head out of bounds, on the snake's own body or on
\* another snake's body) the snake is replaced in its slot by a fresh snake with
\* the same id and colorIndex, a body of 3 consecutive cycle cells with the head
\* furthest forward and direction head minus second cell; it neither moves nor
\* eats, and the respawn leaves foods, the other snakes and snakeTargets as
\* they were.
C17_RespawnFrame == [][Collided => RespawnedInPlace]_vars

\* a snake that ran into the other one has just been respawned
C17_Witness ==
    /\ Noted /\ last.did = "respawn" /\ last.other
    /\ snakes[last.idx + 1].id = last.id
    /\ Len(snakes[last.idx + 1].body) = 3
    /\ snakes[last.idx + 1].body # last.body
    /\ foods = last.foods

\* the step just taken is an iteration of gameLoop that found no collision
Uncollided == Noted' /\ ~(last'.wall \/ last'.self \/ last'.other)

\* the item under the new head is spliced out, the eater's claim deleted, the
\* food count restored and the tail kept
AteAndGrew ==
    /\ last'.did = "eat"
    /\ snakes'[i + 1].body = <<last'.head>> \o snakes[i + 1].body
    /\ SubSeq(foods', 1, Len(foods) - 1) = RemoveAt(foods, findIndex(foods, last'.head))
    /\ last'.id \notin DOMAIN snakeTargets'
    /\ \A oid \in DOMAIN last'.targets \ {last'.id} :
            oid \in DOMAIN snakeTargets' /\ snakeTargets'[oid] = last'.targets[oid]
    /\ Len(foods') >= Min(5, Cardinality(Cells(TILE_COLS, TILE_ROWS) \ Bodies(snakes')))

\* the tail is popped, the food list is left alone
MovedOn ==
    /\ last'.did = "move"
    /\ snakes'[i + 1].body =
            <<last'.head>> \o SubSeq(snakes[i + 1].body, 1, Len(snakes[i + 1].body) - 1)
    /\ foods' = foods
    /\ snakeTargets' = last'.targets

\* C18: on a move without collision the new head is prepended; when it is on a
\* food cell exactly that item is removed, the moving snake's snakeTargets entry
\* is deleted, the food is replenished and the tail kept (length + 1);
\* otherwise the tail cell is removed and the length stays.
C18_MoveOrEat ==
    [][Uncollided =>
        /\ last'.head = Pos(snakes[i + 1].body[1].x + snakes'[i + 1].dx,
                            snakes[i + 1].body[1].y + snakes'[i + 1].dy)
        /\ \A n \in 1 .. Len(snakes) : n # i + 1 => snakes'[n] = snakes[n]
        /\ IF last'.head \in SeqToSet(foods) THEN AteAndGrew ELSE MovedOn]_vars

\* a snake has just eaten the item it had claimed, and the list is full again
C18_Witness ==
    /\ Noted /\ last.did = "eat" /\ ~hung
    /\ last.id \in DOMAIN last.targets
    /\ last.foods[last.targets[last.id] + 1] = last.head
    /\ last.id \notin DOMAIN snakeTargets
    /\ Len(snakes[last.idx + 1].body) = last.len + 1
    /\ Len(foods) = 5 /\ last.head \notin SeqToSet(foods)

\* the cell after the searching head along the cycle
NextOnCycle ==
    CycleAt(aiController,
            (getCycleIndex(aiController, last.from) + 1) % CycleLen(aiController))

\* the nearest food of the only snake is one step ahead on the cycle
FoodOneAhead ==
    /\ Noted /\ Len(snakes) = 1 /\ last.obstacles = <<>>
    /\ NextOnCycle \in SeqToSet(last.foods)
    /\ last.from \notin SeqToSet(last.foods)

\* C19: for a single snake without obstacles whose nearest food is at forward
\* cycle distance 1, getNextMove returns the step to the next cycle cell with
\* type "cycle", never a shortcut, and after the tick the head is on that food.
C19_AdjacentFoodByCycle ==
    FoodOneAhead =>
        /\ last.move # Null
        /\ last.move.type = "cycle"
        /\ last.move.x = NextOnCycle.x - last.from.x
        /\ last.move.y = NextOnCycle.y - last.from.y
        /\ last.did = "eat"
        /\ snakes[1].body[1] = NextOnCycle

\* the snake has stepped along the cycle onto the food just ahead of it and
\* has grown by it
C19_Witness ==
    /\ FoodOneAhead /\ last.did = "eat" /\ last.move.type = "cycle"
    /\ snakes[1].body[1] = NextOnCycle
    /\ Len(snakes[1].body) = last.len + 1

\* the ids whose entry points beyond the end of the food list searched
StaleClaims == {oid \in DOMAIN last.claims : last.claims[oid] >= Len(last.foods)}

\* the claim map searched, without its entries beyond the end of the list
LiveClaims == [oid \in DOMAIN last.claims \ StaleClaims |-> last.claims[oid]]

\* what the search returns and records when the map holds the live claims only
LiveSearch(found) ==
    /\ last.nearest = found.nearest
    /\ \A oid \in DOMAIN found.targets :
            oid \in DOMAIN last.targets /\ last.targets[oid] = found.targets[oid]

\* C20: an entry of snakeTargets whose index is beyond the end of the food
\* list counts as no claim: the search returns and records what it does without
\* that entry, so no item is skipped for it, and nothing is raised.
C20_StaleClaimIgnored ==
    (Noted /\ StaleClaims # {}) =>
        LiveSearch(findNearestFood(aiController, last.from, last.foods, last.id, LiveClaims))

\* the other snake's entry is one past the end of a list of two, and the search
\* takes the first item
C20_Witness ==
    /\ Noted /\ Len(last.foods) = 2
    /\ StaleClaims = DOMAIN last.claims \ {last.id}
    /\ \E oid \in StaleClaims : last.claims[oid] = 2
    /\ last.nearest = last.foods[1]
    /\ last.targets[last.id] = 0

\* the step just taken is the callback of a resize timer: resizeCanvas has run
Rebuilt == Len(resizeTimers') < Len(resizeTimers)

\* two fresh three-cell snakes with ids 0 and 1, on the cycle of the new grid
FreshSnakes(ai, ss) ==
    /\ Len(ss) = 2
    /\ \A n \in 1 .. Len(ss) :
            /\ ss[n].id = n - 1
            /\ Len(ss[n].body) = 3
            /\ \A k \in 1 .. 3 : ss[n].body[k] \in DOMAIN ai.cycleMap

\* C21: a rebuild is a full reset: after resizeCanvas the controller and its
\* cycle are built for the new even dimensions, snakes holds exactly two fresh
\* 3-cell snakes with ids 0 and 1, and foods holds only items placed after the
\* rebuild, on the new grid and off the new bodies.
C21_RebuildResets ==
    [][Rebuilt =>
        /\ aiController'.cols = TILE_COLS' /\ aiController'.rows = TILE_ROWS'
        /\ aiController'.isInitialized
        /\ ValidCycle(aiController')
        /\ FreshSnakes(aiController', snakes')
        /\ SeqToSet(foods') \subseteq Cells(TILE_COLS', TILE_ROWS') \ Bodies(snakes')]_vars

\* the result is a survival move with the given reason, or null
SurvivalOrNull(reason) ==
    last.move # Null => last.move.type = "survival" /\ last.move.reason = reason

\* one of the next five cells along the cycle from the deciding head is an obstacle
BlockedAhead ==
    \E n \in 1 .. 5 :
        CycleAt(aiController,
                (getCycleIndex(aiController, last.from) + n) % CycleLen(aiController))
            \in SeqToSet(last.obstacles)

\* C22: getNextMove checks in strict order: with the next cycle cell an obstacle
\* the result is survival with reason "Immediate Blockage" (or null); otherwise
\* with an obstacle among the next 5 cycle cells it is survival with reason
\* "Path Blocked Ahead" (or null); otherwise it is a "shortcut" or "cycle" move,
\* never survival or null.
C22_ChecksInOrder ==
    Noted =>
        IF NextOnCycle \in SeqToSet(last.obstacles)
        THEN SurvivalOrNull("Immediate Blockage")
        ELSE IF BlockedAhead
        THEN SurvivalOrNull("Path Blocked Ahead")
        ELSE last.move # Null /\ last.move.type \in {"shortcut", "cycle"}

\* the other snake lies across the next cycle cell and the snake steps aside
C22_Witness ==
    /\ Noted /\ NextOnCycle \in SeqToSet(last.obstacles)
    /\ last.move # Null /\ last.move.reason = "Immediate Blockage"
    /\ last.did # "respawn"

\* the head's neighbour in direction d of up, down, left, right
Beside(d) ==
    Pos(last.from.x + <<0, 0, -1, 1>>[d], last.from.y + <<-1, 1, 0, 0>>[d])

\* the food item the deciding snake has just claimed
Target == last.foods[last.targets[last.id] + 1]

\* neighbour d may be taken as a shortcut
Qualifies(d) ==
    /\ last.id \in DOMAIN last.targets
    /\ InGrid(Beside(d), TILE_COLS, TILE_ROWS)
    /\ Beside(d) \notin SeqToSet(last.obstacles)
    /\ \A k \in 1 .. (Len(last.body) - 1) : last.body[k] # Beside(d)
    /\ getDangerScore(aiController, Beside(d), SeqToSet(last.obstacles)) <= 15
    /\ Ahead(Beside(d)) > 1
    /\ Ahead(Beside(d)) < Ahead(Target)
    /\ Ahead(Beside(d)) < Ahead(last.body[Len(last.body)])

FirstQualifying == CHOOSE d \in 1 .. 4 : Qualifies(d) /\ \A e \in 1 .. (d - 1) : ~Qualifies(e)

\* C23: a "shortcut" move goes to the first neighbour of the head, in the order
\* up, down, left, right, that is in bounds, no obstacle, not on the snake's own
\* body other than the tail cell, has danger score <= 15 and lies at a forward
\* cycle distance d with 1 < d < distance to the target food and d < distance
\* to the own tail; when no neighbour is such, the move is the cycle move.
C23_ShortcutIsFirstQualifying ==
    (Noted /\ last.move # Null /\ last.move.type \in {"shortcut", "cycle"}) =>
        IF \E d \in 1 .. 4 : Qualifies(d)
        THEN /\ last.move.type = "shortcut"
             /\ Pos(last.from.x + last.move.x, last.from.y + last.move.y)
                    = Beside(FirstQualifying)
        ELSE /\ last.move.type = "cycle"
             /\ Pos(last.from.x + last.move.x, last.from.y + last.move.y) = NextOnCycle

\* a shortcut was taken to the first of two neighbours that qualify
C23_Witness ==
    /\ Noted /\ last.move # Null /\ last.move.type = "shortcut"
    /\ \E d \in 1 .. 4 : d > FirstQualifying /\ Qualifies(d)
    /\ Pos(last.from.x + last.move.x, last.from.y + last.move.y) # NextOnCycle

\* the 24 cells of the 5x5 square around the cell of the call
Square == {Pos(twin.at.x + dx, twin.at.y + dy) : dx \in -2 .. 2, dy \in -2 .. 2} \ {twin.at}

OffGrid == {c \in Square : ~InGrid(c, TILE_COLS, TILE_ROWS)}

\* the obstacles of the square one step away, and the other ones
NextTo == {c \in Square \cap twin.obstacles : Abs(c.x - twin.at.x) + Abs(c.y - twin.at.y) = 1}

Farther == (Square \cap twin.obstacles) \ (NextTo \cup OffGrid)

\* C24: getDangerScore(pos) is the sum over the 24 cells of the 5x5 square
\* around pos of 5 for a cell outside the grid, 20 for an obstacle in the grid
\* at Manhattan distance 1, 10 for any other obstacle in the grid, 0 otherwise.
C24_DangerScoreSum ==
    twin.op = "danger" =>
        twin.out = 5 * Cardinality(OffGrid) + 20 * Cardinality(NextTo \ OffGrid)
                    + 10 * Cardinality(Farther)

\* a score made of all three parts: cells off the grid, an obstacle one step
\* away and an obstacle further off
C24_Witness ==
    /\ twin.op = "danger"
    /\ OffGrid # {} /\ NextTo # {} /\ Farther # {}
    /\ twin.out = 5 * Cardinality(OffGrid) + 20 * Cardinality(NextTo) + 10 * Cardinality(Farther)

\* the cells in the grid that are no obstacle
Open == Cells(TILE_COLS, TILE_ROWS) \ twin.obstacles

\* the cells of Open reached from the cells of S by steps up, down, left, right
RECURSIVE Reached(_)
Reached(S) ==
    IF \A c \in Open \ S : \A r \in S : ~Adjacent(c, r) THEN S
    ELSE Reached(S \cup {c \in Open : \E r \in S : Adjacent(c, r)})

\* the 4-connected component of Open that holds the start cell of the call
Component == IF twin.at \in Open THEN Reached({twin.at}) ELSE {}

\* C26 (as the spec states it): for every start cell and obstacle set floodFill
\* returns min(300, size of the 4-connected component of non-obstacle in-grid
\* cells containing start).
C26_FloodFillCounts ==
    twin.op = "fill" => twin.out = Min(300, Cardinality(Component))

\* C26 (as the code has it): floodFill counts the start cell without testing
\* it: for a start cell that is no obstacle it returns min(300, size of its
\* component); for one that is an obstacle it returns min(300, 1 + number of
\* non-obstacle cells connected to a neighbour of start).
C26_FloodFillFromOpenCell ==
    twin.op = "fill" =>
        twin.out =
            IF twin.at \in Open THEN Min(300, Cardinality(Component))
            ELSE Min(300, 1 + Cardinality(
                    IF \E c \in Open : Adjacent(c, twin.at)
                    THEN Reached({c \in Open : Adjacent(c, twin.at)})
                    ELSE {}))

\* a fill on the wide grid that stopped at the cap
C26_Witness ==
    /\ twin.op = "fill" /\ twin.at \in Open
    /\ Cardinality(Component) > 300 /\ twin.out = 300

\* getNextMove went to survive: the next cycle cell or one of the next five
\* is an obstacle
Surviving == Noted /\ (NextOnCycle \in SeqToSet(last.obstacles) \/ BlockedAhead)

\* the directions whose neighbour is in bounds, off the snake's body and no obstacle
FreeBeside ==
    {d \in 1 .. 4 :
        /\ InGrid(Beside(d), TILE_COLS, TILE_ROWS)
        /\ Beside(d) \notin SeqToSet(last.body)
        /\ Beside(d) \notin SeqToSet(last.obstacles)}

\* floodFill minus twice the danger score of the neighbour in direction d
SurvivalScore(d) ==
    floodFill(aiController, Beside(d), SeqToSet(last.obstacles) \cup SeqToSet(last.body))
        - 2 * getDangerScore(aiController, Beside(d), SeqToSet(last.obstacles))

\* the first direction, in the order up, down, left, right, of the best score
BestBeside ==
    CHOOSE d \in FreeBeside :
        \A e \in FreeBeside :
            SurvivalScore(d) > SurvivalScore(e) \/ (SurvivalScore(d) = SurvivalScore(e) /\ d <= e)

\* C25: survive returns the move to the neighbour of the head that is in
\* bounds, off the snake's own body (tail included) and no obstacle and that has
\* the highest floodFill - 2 * dangerScore, the first in the order up, down,
\* left, right on ties; it returns null exactly when there is no such neighbour.
C25_SurvivePicksBest ==
    Surviving =>
        IF FreeBeside = {} THEN last.move = Null
        ELSE /\ last.move # Null
             /\ last.move.type = "survival"
             /\ Pos(last.from.x + last.move.x, last.from.y + last.move.y) = Beside(BestBeside)
             /\ last.move.score = SurvivalScore(BestBeside)

\* survive chose the first of two neighbours with the same, highest score
C25_Witness ==
    /\ Surviving /\ last.move # Null
    /\ \E e \in FreeBeside :
            e > BestBeside /\ SurvivalScore(e) = SurvivalScore(BestBeside)
    /\ Pos(last.from.x + last.move.x, last.from.y + last.move.y) = Beside(BestBeside)

\* the coarse cells joined to those of S by the edges generateMST returned
RECURSIVE Joined(_)
Joined(S) ==
    IF \A n \in 1 .. Len(twin.mst) : (twin.mst[n].u \in S) = (twin.mst[n].v \in S) THEN S
    ELSE Joined(S \cup {twin.mst[n].u : n \in {m \in 1 .. Len(twin.mst) : twin.mst[m].v \in S}}
                  \cup {twin.mst[n].v : n \in {m \in 1 .. Len(twin.mst) : twin.mst[m].u \in S}})

\* C27: for every coarse grid w x h >= 1x1 generateMST terminates and returns
\* exactly w*h - 1 edges, each between two 4-adjacent coarse cells, that
\* together connect every coarse cell.
C27_MSTSpans ==
    (twin.inited /\ ~initReports(aiController)) =>
        /\ Len(twin.mst) = (TILE_COLS \div 2) * (TILE_ROWS \div 2) - 1
        /\ \A n \in 1 .. Len(twin.mst) :
            /\ InGrid(twin.mst[n].u, TILE_COLS \div 2, TILE_ROWS \div 2)
            /\ InGrid(twin.mst[n].v, TILE_COLS \div 2, TILE_ROWS \div 2)
            /\ Adjacent(twin.mst[n].u, twin.mst[n].v)
        /\ Joined({Pos(0, 0)}) = Cells(TILE_COLS \div 2, TILE_ROWS \div 2)

\* the tree of the 3x3 coarse grid has been built: 8 edges
C27_Witness ==
    /\ twin.inited /\ TILE_COLS = 6 /\ TILE_ROWS = 6
    /\ Len(twin.mst) = 8
    /\ Joined({Pos(0, 0)}) = Cells(3, 3)

\* cycleMap sends every cell of the cycle to its index, and holds nothing else
MapInvertsCycle(ai) ==
    /\ DOMAIN ai.cycleMap = SeqToSet(ai.hamiltonianCycle)
    /\ \A n \in 1 .. Len(ai.hamiltonianCycle) :
            ai.cycleMap[ai.hamiltonianCycle[n]] = n - 1

\* C28: once built, the cycle and the position-to-index map are not modified
\* by any later operation (getNextMove, getStartState, findNearestFood,
\* findShortcut, survive, the ticks), and the map sends every cell cycle[n] to n.
C28_CycleImmutable ==
    [][aiController.isInitialized =>
        /\ aiController'.isInitialized
        /\ aiController'.hamiltonianCycle = aiController.hamiltonianCycle
        /\ aiController'.cycleMap = aiController.cycleMap
        /\ MapInvertsCycle(aiController')]_vars

\* ticks have run, with moves, meals and a respawn, and the map still inverts
\* the cycle
C28_Witness ==
    /\ aiController.isInitialized /\ MapInvertsCycle(aiController)
    /\ Noted /\ last.did = "respawn" /\ ticks >= 4
    /\ \E n \in 1 .. Len(snakes) : Len(snakes[n].body) > 3

\* C29: the snakes array always holds exactly 2 snakes and the snake in slot
\* n has id n, before and after any ticks, respawns and resets, so every tick
\* takes the snakes in ascending id order.
C29_TwoSnakesInIdOrder ==
    /\ Len(snakes) = 2
    /\ \A n \in 1 .. Len(snakes) : snakes[n].id = n - 1

\* C30: the direction getNextMove returns is applied in the same tick: at every
\* tick boundary each snake's (dx, dy) equals its (nextDx, nextDy), is one of
\* (0,-1), (0,1), (-1,0), (1,0), and equals head cell minus second body cell.
C30_DirectionApplied ==
    TickBoundary =>
        \A n \in 1 .. Len(snakes) :
            /\ snakes[n].dx = snakes[n].nextDx /\ snakes[n].dy = snakes[n].nextDy
            /\ <<snakes[n].dx, snakes[n].dy>> \in {<<0, -1>>, <<0, 1>>, <<-1, 0>>, <<1, 0>>}
            /\ snakes[n].dx = snakes[n].body[1].x - snakes[n].body[2].x
            /\ snakes[n].dy = snakes[n].body[1].y - snakes[n].body[2].y

\* a tick in which the second snake turned has ended
C30_Witness ==
    /\ TickBoundary /\ ticks >= 1 /\ Noted /\ last.did # "respawn"
    /\ last.move # Null
    /\ Pos(last.move.x, last.move.y) # last.prev
    /\ snakes[last.idx + 1].dx = last.move.x /\ snakes[last.idx + 1].dy = last.move.y


\* the tick timers that are live
PendingTicks == Len(twin.others) + (IF gameTimeout = -1 THEN 0 ELSE 1)

\* C31: at most one tick timer is pending at any time, and while gameLoop runs
\* none is: the handler that starts a tick loop is the pending tick itself or
\* has cancelled it first
C31_OneTickTimer == PendingTicks <= 1 /\ (running => PendingTicks = 0)

\* a rebuild that found the tick timer live has started its loop, and the loop
\* has ended with one timer set
C31_Witness ==
    /\ twin.live > 0 /\ burst.rebuilds = 2
    /\ ~running /\ PendingTicks = 1 /\ gameTimeout = BASE_GAME_SPEED

\* C32: random() returns k / 2^32 for an integer 0 <= k < 2^32, and two seeds
\* congruent modulo 2^32 yield identical output streams
C32_CongruentSeedsSameStream ==
    /\ \A n \in 1 .. Len(twin.outA) :
            /\ twin.outA[n][1] \in 0 .. 65535 /\ twin.outA[n][2] \in 0 .. 65535
            /\ twin.outB[n][1] \in 0 .. 65535 /\ twin.outB[n][2] \in 0 .. 65535
    /\ twin.outA = twin.outB

\* C33: no two different snakes hold the same food index in snakeTargets
C33_ClaimsDistinct ==
    \A a \in DOMAIN snakeTargets, b \in DOMAIN snakeTargets :
        a # b => snakeTargets[a] # snakeTargets[b]

\* after a rebuild both snakes hold a claim, and the last search has passed
\* over a nearer item because the other snake's claim was on it
C33_Witness ==
    /\ burst.rebuilds > 0 /\ Noted
    /\ DOMAIN snakeTargets = {0, 1}
    /\ last.id \in DOMAIN last.targets
    /\ \E o \in DOMAIN last.claims \ {last.id} :
            /\ last.claims[o] < Len(last.foods)
            /\ Ahead(last.foods[last.claims[o] + 1])
                    < Ahead(last.foods[last.targets[last.id] + 1])

\* C34: the food cells are pairwise distinct and inside the grid, there are
\* never more than 5, and an iteration of gameLoop that completes leaves as many
\* items as it found or exactly 5
C34_FoodsDistinctInGrid ==
    /\ \A n \in 1 .. Len(foods), m \in 1 .. Len(foods) : n # m => foods[n] # foods[m]
    /\ \A n \in 1 .. Len(foods) : InGrid(foods[n], TILE_COLS, TILE_ROWS)
    /\ Len(foods) <= 5
    /\ (Noted /\ ~hung) => Len(foods) \in {Len(last.foods), 5}

\* the cell the move of the last iteration leads to
Dest == Pos(last.from.x + last.move.x, last.from.y + last.move.y)

\* C35: a non-null move of getNextMove leads to a cell inside the grid that is
\* not in the obstacle set passed in, so a snake hits a wall or another snake's
\* body only in an iteration where getNextMove returned null
C35_MoveAvoidsObstacles ==
    Noted =>
        /\ last.move # Null =>
                /\ InGrid(Dest, TILE_COLS, TILE_ROWS)
                /\ Dest \notin SeqToSet(last.obstacles)
        /\ (last.wall \/ last.other) => last.move = Null

\* survive has returned a move for a head with another snake's body beside it
C35_Witness ==
    /\ Noted /\ last.move # Null /\ last.move.type = "survival"
    /\ \E o \in SeqToSet(last.obstacles) : Adjacent(o, last.from)
    /\ ~last.wall /\ ~last.other

\* no cell is in the bodies of two different snakes
Apart(ss) ==
    \A a \in 1 .. Len(ss), b \in 1 .. Len(ss) :
        a # b => SeqToSet(ss[a].body) \cap SeqToSet(ss[b].body) = {}

\* C36: an iteration of gameLoop that finds no collision never creates overlap:
\* when the snakes' bodies are pairwise disjoint before it they are pairwise
\* disjoint after it, so only a spawn or a respawn introduces overlap
C36_MoveKeepsApart ==
    [][(Apart(snakes) /\ Noted' /\ last'.did # "respawn") => Apart(snakes')]_vars

\* a snake has moved, without colliding, onto a cell beside the other snake's
\* body, and the bodies were and are disjoint
C36_Witness ==
    /\ Noted /\ last.did # "respawn" /\ Len(snakes) = 2
    /\ \A n \in 1 .. Len(snakes) :
            n # last.idx + 1 =>
                /\ SeqToSet(last.body) \cap SeqToSet(snakes[n].body) = {}
                /\ \E o \in SeqToSet(snakes[n].body) : Adjacent(o, last.head)
    /\ snakes[last.idx + 1].body[1] = last.head
    /\ Apart(snakes)

\* forward distance along the cycle from the head of snake ss[1] to a cell
HeadTo(ss, cell) ==
    CycleDist(aiController, getCycleIndex(aiController, ss[1].body[1]),
              getCycleIndex(aiController, cell))

\* one snake is in the world and no food item lies on its body
AloneOffFood ==
    /\ Len(snakes) = 1 /\ ~hung
    /\ SeqToSet(foods) \cap SeqToSet(snakes[1].body) = {}

\* the step just taken is a tick in which the snake neither ate nor collided
MovedOnly == Noted' /\ last'.did = "move"

\* every item is nearer ahead of the head after the step than before it
AllNearer == \A n \in 1 .. Len(foods) : HeadTo(snakes', foods[n]) < HeadTo(snakes, foods[n])

\* a tick with an agent that is alone and off the food brings every item nearer
ChaseStep == [][(AloneOffFood /\ MovedOnly) => AllNearer]_vars

\* a run for an item d cells ahead has not lasted d ticks
ChaseBound == twin.dist > 0 => ticks - twin.since < twin.dist

\* the meal that ends a run is the item that was nearest when the run began
EatsTarget ==
    [][(twin.dist > 0 /\ Noted' /\ last'.did = "eat") => last'.head = twin.food]_vars

\* C37: with a single snake and no food on its body, every tick in which it
\* neither eats nor collides strictly decreases the forward cycle distance from
\* its head to every food item, so it eats its nearest item within as many ticks
\* as that item is cells ahead, unless it collides first
C37_ChaseShortens == ChaseStep /\ []ChaseBound /\ EatsTarget

\* a run with a shortcut in it has ended with the meal, in fewer ticks than
\* the item was cells ahead
C37_Witness ==
    /\ Noted /\ last.did = "eat"
    /\ twin.prev.how = "eat" /\ twin.prev.cuts > 0
    /\ twin.prev.took < twin.prev.dist

\* the cell a shortcut returned by the call leads to
Landing == Pos(twin.snake[1].x + twin.move.x, twin.snake[1].y + twin.move.y)

\* the obstacles passed in that lie in the 5x5 square around the landing cell
NearLanding ==
    {o \in SeqToSet(twin.obstacles) :
        Abs(o.x - Landing.x) <= 2 /\ Abs(o.y - Landing.y) <= 2 /\ o # Landing}

ShortcutReturned == twin.op = "move" /\ twin.move # Null /\ twin.move.type = "shortcut"

\* C38: a shortcut leads to a cell at least two cells away from every border,
\* with no obstacle one step from it and at most one obstacle in the 5x5 square
\* around it, so on a grid with at most 4 columns or at most 4 rows getNextMove
\* never returns a shortcut
C38_ShortcutLandsInside ==
    ShortcutReturned =>
        /\ Landing.x >= 2 /\ Landing.x <= TILE_COLS - 3
        /\ Landing.y >= 2 /\ Landing.y <= TILE_ROWS - 3
        /\ \A o \in NearLanding : ~Adjacent(o, Landing)
        /\ Cardinality(NearLanding) <= 1
        /\ TILE_COLS > 4 /\ TILE_ROWS > 4

\* a shortcut has been returned with one obstacle in the square around its
\* landing cell
C38_Witness == ShortcutReturned /\ Cardinality(NearLanding) = 1

\* the step is an iteration of gameLoop for snake k whose decision went on to
\* the shortcut evaluation (it returned a cycle move or a shortcut) and found an
\* item no other snake had claimed
WroteClaim(k) ==
    /\ running /\ Noted' /\ last'.id = k
    /\ last'.move # Null /\ last'.move.type \in {"cycle", "shortcut"}
    /\ \E n \in 0 .. (Len(foods) - 1) :
            \A o \in DOMAIN snakeTargets \ {k} : snakeTargets[o] # n

\* the step is an iteration of gameLoop in which snake k ate
OwnerAte(k) == running /\ Noted' /\ last'.id = k /\ last'.did = "eat"

\* C39: an entry of snakeTargets is written only by a decision of its owner that
\* reaches the shortcut evaluation with an unclaimed item (also when the move
\* returned is the cycle move) and removed only when its owner eats; a decision
\* ending in survival or null, a respawn and a rebuild leave every entry as it was
C39_ClaimsFrame ==
    [][\A k \in DOMAIN snakeTargets \cup DOMAIN snakeTargets' :
        /\ (k \in DOMAIN snakeTargets' /\ k \notin DOMAIN snakeTargets) => WroteClaim(k)
        /\ (k \in DOMAIN snakeTargets' /\ k \in DOMAIN snakeTargets
                /\ snakeTargets'[k] # snakeTargets[k]) => WroteClaim(k)
        /\ (k \in DOMAIN snakeTargets /\ k \notin DOMAIN snakeTargets') => OwnerAte(k)]_vars

\* a decision that returned the cycle move has written its snake's claim
C39_Witness ==
    /\ Noted /\ last.move # Null /\ last.move.type = "cycle" /\ last.did = "move"
    /\ last.id \in DOMAIN snakeTargets
    /\ (last.id \notin DOMAIN last.claims \/ last.claims[last.id] # snakeTargets[last.id])

\* the new head of the step just taken is on a food cell
HeadOnFood == last'.head \in SeqToSet(foods)

\* the step just taken found a collision
Hit == last'.wall \/ last'.self \/ last'.other

\* the length of the snake of the step just taken stays, grows by one or is 3,
\* and is 3 after a collision
LengthStep ==
    /\ Len(snakes'[i + 1].body) \in {Len(snakes[i + 1].body), Len(snakes[i + 1].body) + 1, 3}
    /\ Hit <=> last'.did = "respawn"
    /\ Hit => Len(snakes'[i + 1].body) = 3
    /\ ~Hit => Len(snakes'[i + 1].body) >= Len(snakes[i + 1].body)

AllThreeLong == TickBoundary => \A n \in 1 .. Len(snakes) : Len(snakes[n].body) >= 3

=============================================================================
